---- MODULE Spec2Model ----
(***************************************************************************)
(* Model of the adaptive frame sampler of api/adaptive_sampling.py:        *)
(* AdaptiveFrameSampler (should_process_frame, reset, the adaptive          *)
(* interval calculation, the motion scorer, the telemetry buffer).         *)
(*                                                                         *)
(* Numbers.  Motion scores are fractions count/NPix; a score is stored as  *)
(* its numerator `count' (pixels changed).  The thresholds of the          *)
(* configuration are percentages (0.15 is 15), and every comparison of a   *)
(* ratio with a threshold is cross-multiplied, so that it is exact.        *)
(* Frames are grayscale buffers of NPix regions, each region wider than    *)
(* the blur kernel, so that cvtColor and GaussianBlur leave a region's     *)
(* intensity as it is.  Wall-clock time is the integer variable `now'.     *)
(* metrics.processing_time_ms (an elapsed-time measurement) is not         *)
(* modelled.                                                               *)
(***************************************************************************)
EXTENDS Integers, Sequences, FiniteSets, TLC

\* ---------------------------------------------------------------- bounds
MaxCalls == 3            \* should_process_frame calls between two resets
MaxFrameIdx == 2         \* frame indices are 0..MaxFrameIdx
MaxTicks == 1            \* the clock advances at most MaxTicks times
NPix == 2                \* regions of a frame
MaxTelemetryEvents == 2  \* capacity of the telemetry buffer (_max_telemetry_events)
Epoch == 10              \* wall-clock time at construction
MaxCount == 4            \* synthetic metrics counters are 0..MaxCount
MaxOverrides == 2        \* keyword arguments of one update_config / create call
MaxVideoFrames == 4      \* frames of the video run_detection reads

\* ---------------------------------------------------- program constants
IntensityDelta == 25     \* cv2.threshold(diff, 25, 255, THRESH_BINARY)
MetricsInitialInterval == 2  \* SamplingMetrics.current_interval default

\* config, sampler: the session's AdaptiveSamplingConfig and AdaptiveFrameSampler
\* now:             the wall clock (time.time())
\* hist:            what the callers did so far
\* twin:            a second sampler of the same process, fed the same calls
\* run:             the locals of one run_detection call
VARIABLES config, sampler, now, hist, twin, run
vars == <<config, sampler, now, hist, twin, run>>

\* --------------------------------------------------------------- helpers
Max(a, b) == IF a >= b THEN a ELSE b
Min(a, b) == IF a <= b THEN a ELSE b
Abs(a) == IF a >= 0 THEN a ELSE 0 - a

RECURSIVE SumSeq(_)
SumSeq(q) == IF q = <<>> THEN 0 ELSE Head(q) + SumSeq(Tail(q))

\* SamplingReason
MOTION_SPIKE == "motion_spike"
ID_SWITCH == "id_switch"
CROWD_CHANGE == "crowd_change"
LOCK_ON_ACTIVE == "lock_on_active"
USER_SEEK == "user_seek"
STABLE_SCENE == "stable_scene"
INITIALIZATION == "initialization"
DEFAULT == "default"

\* A ratio num/den kept exact.
Ratio(n, d) == [num |-> n, den |-> d]
Zero == Ratio(0, 1)

\* SamplingMetrics()
SamplingMetrics ==
    [frames_processed |-> 0, frames_skipped |-> 0, total_frames |-> 0,
     current_interval |-> MetricsInitialInterval, avg_motion_score |-> Zero,
     detection_count |-> 0, id_switches |-> 0, lock_events |-> 0,
     last_reason |-> DEFAULT]

\* A processing ratio left as a fraction, not a percentage.
processing_ratio_Fraction(m) ==
    IF m.total_frames = 0 THEN Zero
    ELSE Ratio(m.frames_processed, m.total_frames)

\* SamplingMetrics.processing_ratio
processing_ratio(m) ==
    IF m.total_frames = 0 THEN Zero
    ELSE Ratio(m.frames_processed * 100, m.total_frames)

\* SamplingMetrics.efficiency_score
efficiency_score(m) ==
    IF m.frames_processed = 0 THEN Zero
    ELSE Ratio(m.detection_count, m.frames_processed)

\* AdaptiveSamplingConfig with the intervals and windows given; thresholds in percent.
AdaptiveSamplingConfig(mn, mx, df) ==
    [min_interval |-> mn, max_interval |-> mx, default_interval |-> df,
     motion_threshold_high |-> 60, motion_threshold_low |-> 30,
     motion_history_size |-> 2,
     detection_change_threshold |-> 30, id_switch_penalty |-> 2,
     lock_on_boost_frames |-> 1,
     seek_event_window |-> 1, stability_window |-> 2,
     enable_motion_detection |-> TRUE, enable_id_tracking |-> TRUE,
     enable_crowd_monitoring |-> TRUE]

\* AdaptiveSamplingConfig(): the dataclass defaults, thresholds in percent.
AdaptiveSamplingConfigDefaults ==
    [min_interval |-> 1, max_interval |-> 8, default_interval |-> 2,
     motion_threshold_high |-> 15, motion_threshold_low |-> 5,
     motion_history_size |-> 10,
     detection_change_threshold |-> 30, id_switch_penalty |-> 3,
     lock_on_boost_frames |-> 15,
     seek_event_window |-> 2, stability_window |-> 30,
     enable_motion_detection |-> TRUE, enable_id_tracking |-> TRUE,
     enable_crowd_monitoring |-> TRUE]

\* An Optional[float] frame rate: None, or a given value.
NoFps == [given |-> FALSE, value |-> 0]
Fps(v) == [given |-> TRUE, value |-> v]

\* Keyword arguments are a sequence of <<key, value>> pairs with distinct keys.
HasKey(kwargs, key) == \E i \in DOMAIN kwargs : kwargs[i][1] = key
ValueOf(kwargs, key) == kwargs[CHOOSE i \in DOMAIN kwargs : kwargs[i][1] = key][2]

\* for key, value in kwargs.items(): if hasattr(config, key): setattr(...)
SetAttrs(cfg, kwargs) ==
    [f \in DOMAIN cfg |-> IF HasKey(kwargs, f) THEN ValueOf(kwargs, f) ELSE cfg[f]]

\* An update that raises at the first name that is no field of the configuration.
update_config_RaisesOnUnknown(cfg, kwargs) ==
    LET bad == {i \in DOMAIN kwargs : kwargs[i][1] \notin DOMAIN cfg}
        stop == IF bad = {} THEN Len(kwargs) + 1
                ELSE CHOOSE i \in bad : \A j \in bad : i <= j
    IN  [config |-> SetAttrs(cfg, SubSeq(kwargs, 1, stop - 1)),
         raised |-> bad # {}]

\* AdaptiveFrameSampler.update_config: an unknown key is logged as a warning.
update_config(cfg, kwargs) ==
    [config |-> SetAttrs(cfg, kwargs), raised |-> FALSE]

\* A sizing table whose middle row starts above 30.
create_adaptive_sampler_Above30(video_fps, config_overrides) ==
    LET fps == IF video_fps.given /\ video_fps.value # 0 THEN video_fps.value ELSE 30
        cfg == AdaptiveSamplingConfigDefaults
        sized == IF fps >= 60
                 THEN [cfg EXCEPT !.default_interval = 3, !.max_interval = 12]
                 ELSE IF fps > 30
                 THEN [cfg EXCEPT !.default_interval = 2, !.max_interval = 8]
                 ELSE [cfg EXCEPT !.default_interval = 1, !.max_interval = 4]
    IN  SetAttrs(sized, config_overrides)

\* create_adaptive_sampler: the configuration of the sampler it returns.
\* fps = video_fps or 30.0 takes 30 for None and for 0.
create_adaptive_sampler(video_fps, config_overrides) ==
    LET fps == IF video_fps.given /\ video_fps.value # 0 THEN video_fps.value ELSE 30
        cfg == AdaptiveSamplingConfigDefaults
        sized == IF fps >= 60
                 THEN [cfg EXCEPT !.default_interval = 3, !.max_interval = 12]
                 ELSE IF fps >= 30
                 THEN [cfg EXCEPT !.default_interval = 2, !.max_interval = 8]
                 ELSE [cfg EXCEPT !.default_interval = 1, !.max_interval = 4]
    IN  SetAttrs(sized, config_overrides)

\* AdaptiveFrameSampler.__init__: the state of a sampler constructed with cfg.
AdaptiveFrameSampler(cfg) ==
    [metrics |-> SamplingMetrics,
     current_interval |-> cfg.default_interval,
     frame_count |-> 0,
     last_processed_frame |-> -1,
     prev_frame_gray |-> <<>>,
     motion_history |-> <<>>,
     prev_detection_count |-> 0,
     prev_track_ids |-> {},
     stability_counter |-> 0,
     lock_on_boost_remaining |-> 0,
     id_switch_boost_remaining |-> 0,
     last_seek_time |-> 0,
     telemetry_events |-> <<>>]

\* ------------------------------------------------------------ the inputs
\* A detection is a dict with or without the key 'id'.
Det(i) == [has_id |-> TRUE, id |-> i]
NoIdDet == [has_id |-> FALSE, id |-> 0]
\* detections: Optional[List[Dict]]
NoDetections == [given |-> FALSE, list |-> <<>>]
Detections(l) == [given |-> TRUE, list |-> l]

\* ------------------------------------------------------ the motion scorer
\* A frame is NPix regions, each wider than the blur kernel and filled with a
\* pattern <<a, b>> that alternates pixel by pixel between the intensities a and
\* b (a plain region has a = b).
Region(a, b) == <<a, b>>
Plain(v) == Region(v, v)

\* cv2.cvtColor(BGR2GRAY), then cv2.GaussianBlur((21, 21)): the blur averages a
\* pixel-fine pattern to its mean intensity and leaves a plain region as it is.
Smoothed(frame) == [p \in DOMAIN frame |-> (frame[p][1] + frame[p][2]) \div 2]

\* A scorer that keeps the first frame of the session as its reference.
_calculate_motion_score_KeepsFirst(s, frame) ==
    LET gray == Smoothed(frame)
        motion_score ==
            IF s.prev_frame_gray # <<>>
            THEN Cardinality({p \in 1..Len(gray) :
                     Abs(s.prev_frame_gray[p] - gray[p]) > IntensityDelta})
            ELSE 0
    IN  [score |-> motion_score,
         s |-> IF s.prev_frame_gray # <<>> THEN s
               ELSE [s EXCEPT !.prev_frame_gray = gray]]

\* _calculate_motion_score: the fraction (numerator over NPix) of regions whose
\* smoothed intensity differs from the stored previous frame by more than
\* IntensityDelta; the smoothed frame scored becomes the stored previous frame.
_calculate_motion_score(s, frame) ==
    LET gray == Smoothed(frame)
        motion_score ==
            IF s.prev_frame_gray # <<>>
            THEN Cardinality({p \in 1..Len(gray) :
                     Abs(s.prev_frame_gray[p] - gray[p]) > IntensityDelta})
            ELSE 0
    IN  [score |-> motion_score, s |-> [s EXCEPT !.prev_frame_gray = gray]]

\* ------------------------------------------------------ the telemetry log
\* An event that takes its interval from the sampler's stored interval.
TelemetryEvent_StoredInterval(s, t, frame_idx, reason, interval, processed) ==
    [timestamp |-> t, frame_idx |-> frame_idx, reason |-> reason,
     interval |-> s.current_interval, processed |-> processed,
     motion_score |-> s.metrics.avg_motion_score,
     detection_count |-> s.metrics.detection_count,
     processing_ratio |-> processing_ratio(s.metrics)]

\* The event _record_telemetry builds at time t.
TelemetryEvent(s, t, frame_idx, reason, interval, processed) ==
    [timestamp |-> t, frame_idx |-> frame_idx, reason |-> reason,
     interval |-> interval, processed |-> processed,
     motion_score |-> s.metrics.avg_motion_score,
     detection_count |-> s.metrics.detection_count,
     processing_ratio |-> processing_ratio(s.metrics)]

\* A buffer that drops the oldest event already when it reaches capacity.
_record_telemetry_AtCapacity(s, t, frame_idx, reason, interval, processed) ==
    LET appended == Append(s.telemetry_events,
                           TelemetryEvent(s, t, frame_idx, reason, interval, processed))
    IN  [s EXCEPT !.telemetry_events =
            IF Len(appended) >= MaxTelemetryEvents THEN Tail(appended) ELSE appended]

\* _record_telemetry: append the event, then drop the oldest when over capacity.
_record_telemetry(s, t, frame_idx, reason, interval, processed) ==
    LET appended == Append(s.telemetry_events,
                           TelemetryEvent(s, t, frame_idx, reason, interval, processed))
    IN  [s EXCEPT !.telemetry_events =
            IF Len(appended) > MaxTelemetryEvents THEN Tail(appended) ELSE appended]

\* ------------------------------------- the normal adaptive calculation
\* The stages of _calculate_adaptive_interval work on a record
\*   [s, interval, reason, branch, motion, crowd_fired, id_fired]
\* (the sampler state, the interval and reason so far, the branch of
\* should_process_frame that is running, and what fired).

\* Start with default interval.
\* A start from the interval of the last decision instead of default_interval.
StartStage_FromCurrent(s, cfg) ==
    [s |-> s, interval |-> s.current_interval, reason |-> DEFAULT,
     branch |-> "normal",
     motion |-> "off", crowd_fired |-> FALSE, id_fired |-> FALSE]

StartStage(s, cfg) ==
    [s |-> s, interval |-> cfg.default_interval, reason |-> DEFAULT,
     branch |-> "normal",
     motion |-> "off", crowd_fired |-> FALSE, id_fired |-> FALSE]

\* Motion detection: score, bounded history, moving average, thresholds.
\* A motion stage that counts a call towards stability when motion detection
\* is disabled.
MotionStage_CountsWhenDisabled(st, cfg, frame) ==
    IF ~cfg.enable_motion_detection
    THEN [st EXCEPT !.s = [st.s EXCEPT !.stability_counter = @ + 1]]
    ELSE
    LET ms == _calculate_motion_score(st.s, frame)
        appended == Append(ms.s.motion_history, ms.score)
        history == IF Len(appended) > cfg.motion_history_size
                   THEN Tail(appended) ELSE appended
        total == SumSeq(history)
        n == Len(history)
        s1 == [ms.s EXCEPT !.motion_history = history,
                           !.metrics.avg_motion_score = Ratio(total, n * NPix)]
    IN  IF total * 100 > cfg.motion_threshold_high * n * NPix
        THEN [st EXCEPT !.s = [s1 EXCEPT !.stability_counter = 0],
                        !.interval = cfg.min_interval,
                        !.reason = MOTION_SPIKE,
                        !.motion = "high"]
        ELSE IF total * 100 < cfg.motion_threshold_low * n * NPix
        THEN [st EXCEPT !.s = [s1 EXCEPT !.stability_counter = @ + 1],
                        !.motion = "low"]
        ELSE [st EXCEPT !.s = [s1 EXCEPT !.stability_counter = 0],
                        !.motion = "mid"]

\* A motion stage that evicts the newest score instead of the oldest (pop()
\* for pop(0)).
MotionStage_EvictsNewest(st, cfg, frame) ==
    IF ~cfg.enable_motion_detection THEN st
    ELSE
    LET ms == _calculate_motion_score(st.s, frame)
        appended == Append(ms.s.motion_history, ms.score)
        history == IF Len(appended) > cfg.motion_history_size
                   THEN SubSeq(appended, 1, Len(appended) - 1) ELSE appended
        total == SumSeq(history)
        n == Len(history)
        s1 == [ms.s EXCEPT !.motion_history = history,
                           !.metrics.avg_motion_score = Ratio(total, n * NPix)]
    IN  IF total * 100 > cfg.motion_threshold_high * n * NPix
        THEN [st EXCEPT !.s = [s1 EXCEPT !.stability_counter = 0],
                        !.interval = cfg.min_interval,
                        !.reason = MOTION_SPIKE,
                        !.motion = "high"]
        ELSE IF total * 100 < cfg.motion_threshold_low * n * NPix
        THEN [st EXCEPT !.s = [s1 EXCEPT !.stability_counter = @ + 1],
                        !.motion = "low"]
        ELSE [st EXCEPT !.s = [s1 EXCEPT !.stability_counter = 0],
                        !.motion = "mid"]

MotionStage(st, cfg, frame) ==
    IF ~cfg.enable_motion_detection THEN st
    ELSE
    LET ms == _calculate_motion_score(st.s, frame)
        appended == Append(ms.s.motion_history, ms.score)
        history == IF Len(appended) > cfg.motion_history_size
                   THEN Tail(appended) ELSE appended
        total == SumSeq(history)
        n == Len(history)
        s1 == [ms.s EXCEPT !.motion_history = history,
                           !.metrics.avg_motion_score = Ratio(total, n * NPix)]
    IN  IF total * 100 > cfg.motion_threshold_high * n * NPix
        THEN [st EXCEPT !.s = [s1 EXCEPT !.stability_counter = 0],
                        !.interval = cfg.min_interval,
                        !.reason = MOTION_SPIKE,
                        !.motion = "high"]
        ELSE IF total * 100 < cfg.motion_threshold_low * n * NPix
        THEN [st EXCEPT !.s = [s1 EXCEPT !.stability_counter = @ + 1],
                        !.motion = "low"]
        ELSE [st EXCEPT !.s = [s1 EXCEPT !.stability_counter = 0],
                        !.motion = "mid"]

\* A crowd change that leaves the reason of a motion spike in place.
CrowdChangeFired_KeepsMotionSpike(st, cfg) ==
    [st EXCEPT !.interval = Min(@, cfg.min_interval + 1),
               !.reason = IF @ = MOTION_SPIKE THEN @ ELSE CROWD_CHANGE,
               !.s.stability_counter = 0,
               !.crowd_fired = TRUE]

\* A crowd change with the interval left as the earlier stage set it.
CrowdChangeFired_NoCap(st, cfg) ==
    [st EXCEPT !.reason = CROWD_CHANGE,
               !.s.stability_counter = 0,
               !.crowd_fired = TRUE]

\* count_change > detection_change_threshold
CrowdChangeFired(st, cfg) ==
    [st EXCEPT !.interval = Min(@, cfg.min_interval + 1),
               !.reason = CROWD_CHANGE,
               !.s.stability_counter = 0,
               !.crowd_fired = TRUE]

\* A crowd check that takes a stored count of 0 for 1.
CrowdStage_ZeroAsOne(st, cfg, detections) ==
    IF ~(cfg.enable_crowd_monitoring /\ detections.given) THEN st
    ELSE
    LET current_count == Len(detections.list)
        prev == Max(st.s.prev_detection_count, 1)
        fired == Abs(current_count - prev) * 100
                     > cfg.detection_change_threshold * prev
        st1 == IF fired THEN CrowdChangeFired(st, cfg) ELSE st
    IN  [st1 EXCEPT !.s.prev_detection_count = current_count]

\* Detection count changes (crowd monitoring).
CrowdStage(st, cfg, detections) ==
    IF ~(cfg.enable_crowd_monitoring /\ detections.given) THEN st
    ELSE
    LET current_count == Len(detections.list)
        prev == st.s.prev_detection_count
        fired == /\ prev > 0
                 /\ Abs(current_count - prev) * 100
                        > cfg.detection_change_threshold * prev
        st1 == IF fired THEN CrowdChangeFired(st, cfg) ELSE st
    IN  [st1 EXCEPT !.s.prev_detection_count = current_count]

\* An identity set that takes the default -1 for a detection without 'id'.
TrackIds_DefaultId(l) ==
    {IF l[i].has_id THEN l[i].id ELSE -1 : i \in 1..Len(l)}

\* {det.get('id', -1) for det in detections if 'id' in det}
TrackIds(l) == {l[i].id : i \in {j \in 1..Len(l) : l[j].has_id}}

\* An identity switch that arms the cooldown one call short.
IdSwitchFired_ShortCooldown(st, cfg) ==
    [st EXCEPT !.s.id_switch_boost_remaining = cfg.id_switch_penalty - 1,
               !.interval = cfg.min_interval,
               !.reason = ID_SWITCH,
               !.s.metrics.id_switches = @ + 1,
               !.s.stability_counter = 0,
               !.id_fired = TRUE]

\* new_ids or lost_ids
IdSwitchFired(st, cfg) ==
    [st EXCEPT !.s.id_switch_boost_remaining = cfg.id_switch_penalty,
               !.interval = cfg.min_interval,
               !.reason = ID_SWITCH,
               !.s.metrics.id_switches = @ + 1,
               !.s.stability_counter = 0,
               !.id_fired = TRUE]

\* An identity comparison that also fires against an empty stored set.
IdStage_FiresFromEmpty(st, cfg, detections) ==
    IF ~(cfg.enable_id_tracking /\ detections.given) THEN st
    ELSE
    LET current_ids == TrackIds(detections.list)
        prev == st.s.prev_track_ids
        fired == current_ids # prev
        st1 == IF fired THEN IdSwitchFired(st, cfg) ELSE st
    IN  [st1 EXCEPT !.s.prev_track_ids = current_ids]

\* ID switch detection.
IdStage(st, cfg, detections) ==
    IF ~(cfg.enable_id_tracking /\ detections.given) THEN st
    ELSE
    LET current_ids == TrackIds(detections.list)
        prev == st.s.prev_track_ids
        new_ids == current_ids \ prev
        lost_ids == prev \ current_ids
        fired == /\ prev # {} /\ current_ids # prev
                 /\ (new_ids # {} \/ lost_ids # {})
        st1 == IF fired THEN IdSwitchFired(st, cfg) ELSE st
    IN  [st1 EXCEPT !.s.prev_track_ids = current_ids]

\* A stability reduction that goes to max_interval at once.
StabilityStage_ToMax(st, cfg) ==
    IF st.s.stability_counter >= cfg.stability_window /\ st.reason = DEFAULT
    THEN [st EXCEPT !.interval = cfg.max_interval,
                    !.reason = STABLE_SCENE]
    ELSE st

\* Apply stability reduction.
StabilityStage(st, cfg) ==
    IF st.s.stability_counter >= cfg.stability_window /\ st.reason = DEFAULT
    THEN [st EXCEPT !.interval = Min(cfg.max_interval, @ + 1),
                    !.reason = STABLE_SCENE]
    ELSE st

\* A clamp that only caps the interval at max_interval.
ClampStage_UpperOnly(st, cfg) ==
    [st EXCEPT !.interval = Min(cfg.max_interval, @)]

\* Ensure interval is within bounds.
ClampStage(st, cfg) ==
    [st EXCEPT !.interval = Max(cfg.min_interval, Min(cfg.max_interval, @))]

\* _calculate_adaptive_interval
_calculate_adaptive_interval(s, cfg, frame, detections) ==
    ClampStage(
      StabilityStage(
        IdStage(
          CrowdStage(
            MotionStage(StartStage(s, cfg), cfg, frame),
            cfg, detections),
          cfg, detections),
        cfg),
      cfg)

\* ------------------------------------------------- should_process_frame
\* A seek window that still holds when exactly seek_event_window has elapsed.
InSeekWindow_Inclusive(s, cfg, t) == t - s.last_seek_time <= cfg.seek_event_window

\* Check if we're in a seek boost window.
InSeekWindow(s, cfg, t) == t - s.last_seek_time < cfg.seek_event_window

\* A seek event that is subject to the elapsed-interval test.
SeekEventPath_Gated(s, t, frame_idx) ==
    LET s1 == [s EXCEPT !.last_seek_time = t]
        gate == (frame_idx - s.last_processed_frame) >= s.current_interval
        s2 == _record_telemetry(s1, t, frame_idx, USER_SEEK, 1, gate)
    IN  [s |-> [s2 EXCEPT !.metrics.last_reason = USER_SEEK],
         should_process |-> gate, reason |-> USER_SEEK, interval |-> 1,
         branch |-> "seek_event", motion |-> "off",
         crowd_fired |-> FALSE, id_fired |-> FALSE]

\* Handle seek events: the call returns at once, (True, "User seek event").
\* A seek event that drops the stored previous frame and the motion history,
\* as the frames before a jump say nothing about the frames after it.
SeekEventPath_ForgetsMotion(s, t, frame_idx) ==
    LET s1 == [s EXCEPT !.last_seek_time = t, !.prev_frame_gray = <<>>,
                        !.motion_history = <<>>]
        s2 == _record_telemetry(s1, t, frame_idx, USER_SEEK, 1, TRUE)
    IN  [s |-> [s2 EXCEPT !.metrics.last_reason = USER_SEEK],
         should_process |-> TRUE, reason |-> USER_SEEK, interval |-> 1,
         branch |-> "seek_event", motion |-> "off",
         crowd_fired |-> FALSE, id_fired |-> FALSE]

SeekEventPath(s, t, frame_idx) ==
    LET s1 == [s EXCEPT !.last_seek_time = t]
        s2 == _record_telemetry(s1, t, frame_idx, USER_SEEK, 1, TRUE)
    IN  [s |-> [s2 EXCEPT !.metrics.last_reason = USER_SEEK],
         should_process |-> TRUE, reason |-> USER_SEEK, interval |-> 1,
         branch |-> "seek_event", motion |-> "off",
         crowd_fired |-> FALSE, id_fired |-> FALSE]

\* A chain whose lock-on branch also consumes the identity-switch cooldown.
ChooseInterval_LockConsumesCooldown(s, cfg, t, frame, detections, lock_on_active) ==
    IF InSeekWindow(s, cfg, t)
    THEN [s |-> s, interval |-> 1, reason |-> USER_SEEK, branch |-> "seek_window",
          motion |-> "off", crowd_fired |-> FALSE, id_fired |-> FALSE]
    ELSE IF lock_on_active
    THEN [s |-> [s EXCEPT !.lock_on_boost_remaining = cfg.lock_on_boost_frames,
                          !.metrics.lock_events = @ + 1,
                          !.id_switch_boost_remaining = Max(@ - 1, 0)],
          interval |-> 1, reason |-> LOCK_ON_ACTIVE, branch |-> "lock_on",
          motion |-> "off", crowd_fired |-> FALSE, id_fired |-> FALSE]
    ELSE IF s.id_switch_boost_remaining > 0
    THEN [s |-> [s EXCEPT !.id_switch_boost_remaining = @ - 1],
          interval |-> 1, reason |-> ID_SWITCH, branch |-> "cooldown",
          motion |-> "off", crowd_fired |-> FALSE, id_fired |-> FALSE]
    ELSE _calculate_adaptive_interval(s, cfg, frame, detections)

\* A chain that tests lock-on before the seek window.
ChooseInterval_LockFirst(s, cfg, t, frame, detections, lock_on_active) ==
    IF lock_on_active
    THEN [s |-> [s EXCEPT !.lock_on_boost_remaining = cfg.lock_on_boost_frames,
                          !.metrics.lock_events = @ + 1],
          interval |-> 1, reason |-> LOCK_ON_ACTIVE, branch |-> "lock_on",
          motion |-> "off", crowd_fired |-> FALSE, id_fired |-> FALSE]
    ELSE IF InSeekWindow(s, cfg, t)
    THEN [s |-> s, interval |-> 1, reason |-> USER_SEEK, branch |-> "seek_window",
          motion |-> "off", crowd_fired |-> FALSE, id_fired |-> FALSE]
    ELSE IF s.id_switch_boost_remaining > 0
    THEN [s |-> [s EXCEPT !.id_switch_boost_remaining = @ - 1],
          interval |-> 1, reason |-> ID_SWITCH, branch |-> "cooldown",
          motion |-> "off", crowd_fired |-> FALSE, id_fired |-> FALSE]
    ELSE _calculate_adaptive_interval(s, cfg, frame, detections)

\* The if/elif chain that chooses interval and reason of a call without seek event.
\* A choice that honours the lock-on boost: the calls after lock-on ends keep
\* interval 1 while the boost counter runs down.
ChooseInterval_BoostCounts(s, cfg, t, frame, detections, lock_on_active) ==
    IF InSeekWindow(s, cfg, t)
    THEN [s |-> s, interval |-> 1, reason |-> USER_SEEK, branch |-> "seek_window",
          motion |-> "off", crowd_fired |-> FALSE, id_fired |-> FALSE]
    ELSE IF lock_on_active
    THEN [s |-> [s EXCEPT !.lock_on_boost_remaining = cfg.lock_on_boost_frames,
                          !.metrics.lock_events = @ + 1],
          interval |-> 1, reason |-> LOCK_ON_ACTIVE, branch |-> "lock_on",
          motion |-> "off", crowd_fired |-> FALSE, id_fired |-> FALSE]
    ELSE IF s.lock_on_boost_remaining > 0
    THEN [s |-> [s EXCEPT !.lock_on_boost_remaining = @ - 1],
          interval |-> 1, reason |-> LOCK_ON_ACTIVE, branch |-> "lock_on",
          motion |-> "off", crowd_fired |-> FALSE, id_fired |-> FALSE]
    ELSE IF s.id_switch_boost_remaining > 0
    THEN [s |-> [s EXCEPT !.id_switch_boost_remaining = @ - 1],
          interval |-> 1, reason |-> ID_SWITCH, branch |-> "cooldown",
          motion |-> "off", crowd_fired |-> FALSE, id_fired |-> FALSE]
    ELSE _calculate_adaptive_interval(s, cfg, frame, detections)

ChooseInterval(s, cfg, t, frame, detections, lock_on_active) ==
    IF InSeekWindow(s, cfg, t)
    THEN [s |-> s, interval |-> 1, reason |-> USER_SEEK, branch |-> "seek_window",
          motion |-> "off", crowd_fired |-> FALSE, id_fired |-> FALSE]
    ELSE IF lock_on_active
    THEN [s |-> [s EXCEPT !.lock_on_boost_remaining = cfg.lock_on_boost_frames,
                          !.metrics.lock_events = @ + 1],
          interval |-> 1, reason |-> LOCK_ON_ACTIVE, branch |-> "lock_on",
          motion |-> "off", crowd_fired |-> FALSE, id_fired |-> FALSE]
    ELSE IF s.id_switch_boost_remaining > 0
    THEN [s |-> [s EXCEPT !.id_switch_boost_remaining = @ - 1],
          interval |-> 1, reason |-> ID_SWITCH, branch |-> "cooldown",
          motion |-> "off", crowd_fired |-> FALSE, id_fired |-> FALSE]
    ELSE _calculate_adaptive_interval(s, cfg, frame, detections)

\* A gate that wants more than interval frames to have elapsed.
ElapsedGate_Strict(frame_idx, last_processed_frame, interval) ==
    (frame_idx - last_processed_frame) > interval

\* A gate on the frame index alone: every interval-th index passes.
ElapsedGate_Modulo(frame_idx, last_processed_frame, interval) ==
    frame_idx % interval = 0

\* A gate that counts the frames elapsed from frame 0 while nothing was processed.
ElapsedGate_FromZero(frame_idx, last_processed_frame, interval) ==
    (frame_idx - Max(last_processed_frame, 0)) >= interval

\* Determine if we should process this frame.
\* A gate on the distance to the last processed frame in either direction.
ElapsedGate_Absolute(frame_idx, last_processed_frame, interval) ==
    Abs(frame_idx - last_processed_frame) >= interval

ElapsedGate(frame_idx, last_processed_frame, interval) ==
    (frame_idx - last_processed_frame) >= interval

\* A skip counter that counts the frames skipped since the last processed one.
CountDecision_SkipStreak(s, frame_idx, detections, should_process) ==
    IF should_process
    THEN [s EXCEPT !.last_processed_frame = frame_idx,
                   !.metrics.frames_processed = @ + 1,
                   !.metrics.frames_skipped = 0,
                   !.metrics.detection_count =
                       IF detections.given THEN @ + Len(detections.list) ELSE @]
    ELSE [s EXCEPT !.metrics.frames_skipped = @ + 1]

\* The metrics of a processed or a skipped frame.
CountDecision(s, frame_idx, detections, should_process) ==
    IF should_process
    THEN [s EXCEPT !.last_processed_frame = frame_idx,
                   !.metrics.frames_processed = @ + 1,
                   !.metrics.detection_count =
                       IF detections.given THEN @ + Len(detections.list) ELSE @]
    ELSE [s EXCEPT !.metrics.frames_skipped = @ + 1]

\* A frame count that follows the frame index instead of its maximum.
NoteFrame_NoMax(s, frame_idx) ==
    [s EXCEPT !.frame_count = frame_idx,
              !.metrics.total_frames = frame_idx + 1]

\* self._frame_count = frame_idx; total_frames = max(total_frames, frame_idx + 1)
NoteFrame(s, frame_idx) ==
    [s EXCEPT !.frame_count = frame_idx,
              !.metrics.total_frames = Max(@, frame_idx + 1)]

\* should_process_frame at wall-clock time t: the new sampler state s, the
\* returned should_process, and the decision's reason and interval.
should_process_frame(s, cfg, t, frame_idx, frame, detections, lock_on_active, seek_event) ==
    LET s0 == NoteFrame(s, frame_idx)
    IN  IF seek_event THEN SeekEventPath(s0, t, frame_idx)
        ELSE
        LET ch == ChooseInterval(s0, cfg, t, frame, detections, lock_on_active)
            s1 == [ch.s EXCEPT !.current_interval = ch.interval,
                               !.metrics.current_interval = ch.interval,
                               !.metrics.last_reason = ch.reason]
            should_process == ElapsedGate(frame_idx, s1.last_processed_frame, ch.interval)
            s2 == CountDecision(s1, frame_idx, detections, should_process)
            s3 == _record_telemetry(s2, t, frame_idx, ch.reason, ch.interval, should_process)
        IN  [s |-> s3, should_process |-> should_process,
             reason |-> ch.reason, interval |-> ch.interval, branch |-> ch.branch,
             motion |-> ch.motion, crowd_fired |-> ch.crowd_fired,
             id_fired |-> ch.id_fired]

\* get_metrics: return self.metrics, the sampler's own object and no copy of
\* it; live says that what the caller holds is that object.
get_metrics(s) ==
    [held |-> TRUE, live |-> TRUE, seen |-> s.metrics, frozen |-> s.metrics]

\* An Optional[float] timestamp: None, or a given value.
NoTimestamp == [given |-> FALSE, value |-> 0]
Timestamp(v) == [given |-> TRUE, value |-> v]

\* A read that hands out the buffer itself when no timestamp is given.
get_telemetry_events_ReturnsBuffer(s, since_timestamp) ==
    IF ~since_timestamp.given
    THEN [list |-> s.telemetry_events, is_buffer |-> TRUE]
    ELSE [list |-> SelectSeq(s.telemetry_events,
                             LAMBDA event : event.timestamp >= since_timestamp.value),
          is_buffer |-> FALSE]

\* get_telemetry_events: self._telemetry_events.copy(), or a list comprehension
\* over the buffer; is_buffer says whether the returned list is the sampler's
\* own list object.
get_telemetry_events(s, since_timestamp) ==
    IF ~since_timestamp.given
    THEN [list |-> s.telemetry_events, is_buffer |-> FALSE]
    ELSE [list |-> SelectSeq(s.telemetry_events,
                             LAMBDA event : event.timestamp >= since_timestamp.value),
          is_buffer |-> FALSE]

\* A reset that keeps the stored identity set.
reset_KeepsTrackIds(s, cfg) ==
    [s EXCEPT !.metrics = SamplingMetrics,
              !.current_interval = cfg.default_interval,
              !.frame_count = 0,
              !.last_processed_frame = -1,
              !.prev_frame_gray = <<>>,
              !.motion_history = <<>>,
              !.prev_detection_count = 0,
              !.stability_counter = 0,
              !.lock_on_boost_remaining = 0,
              !.id_switch_boost_remaining = 0,
              !.last_seek_time = 0,
              !.telemetry_events = <<>>]

\* reset
reset(s, cfg) ==
    [s EXCEPT !.metrics = SamplingMetrics,
              !.current_interval = cfg.default_interval,
              !.frame_count = 0,
              !.last_processed_frame = -1,
              !.prev_frame_gray = <<>>,
              !.motion_history = <<>>,
              !.prev_detection_count = 0,
              !.prev_track_ids = {},
              !.stability_counter = 0,
              !.lock_on_boost_remaining = 0,
              !.id_switch_boost_remaining = 0,
              !.last_seek_time = 0,
              !.telemetry_events = <<>>]

\* ------------------------------------------------ the detection pipeline
\* round(x, digits) of a non-negative ratio, as the integer number of
\* 10^-digits units nearest to it.
Pow10(digits) == IF digits = 2 THEN 100 ELSE 10000
Round(x, digits) == (2 * x.num * Pow10(digits) + x.den) \div (2 * x.den)

\* The payload built from the decision and from the object get_metrics()
\* returns after it.
TelemetryData(out) ==
    LET metrics == out.s.metrics
    IN  [out |-> out,
         telemetry_data |->
            [should_process |-> out.should_process,
             reason |-> out.reason,
             current_interval |-> metrics.current_interval,
             processing_ratio |-> Round(processing_ratio(metrics), 2),
             frames_processed |-> metrics.frames_processed,
             frames_skipped |-> metrics.frames_skipped,
             avg_motion_score |-> Round(metrics.avg_motion_score, 4),
             efficiency_score |-> Round(efficiency_score(metrics), 2)]]

\* integrate_with_detection_pipeline: one should_process_frame call, then the
\* payload.
integrate_with_detection_pipeline(s, cfg, t, frame_idx, frame, prev_detections, lock_on_active, seek_event) ==
    TelemetryData(should_process_frame(s, cfg, t, frame_idx, frame, prev_detections,
                                       lock_on_active, seek_event))

\* adaptive_sampler = None, when adaptive sampling is disabled; no
\* configuration is made then.
NoSampler == [none |-> TRUE]
NoConfig == [made |-> FALSE]
\* run_detection has not returned.
NoResult == [returned |-> FALSE]
\* max_frames = None
NoMaxFrames == 0

\* The locals of run_detection when the frame loop is entered.
run_detection(enable_adaptive_sampling, sample_stride, max_frames) ==
    [pc |-> "loop",
     enable_adaptive_sampling |-> enable_adaptive_sampling,
     sample_stride |-> sample_stride, max_frames |-> max_frames,
     processed |-> 0, tracks |-> <<>>, prev_detections |-> <<>>, raw_idx |-> 0,
     frames_read |-> 0, frames_skipped |-> 0,
     released |-> FALSE, meta |-> <<>>, error |-> "none", result |-> NoResult]

\* The frame is not to be processed.
AfterSkip(r) ==
    [r EXCEPT !.frames_skipped = @ + 1, !.raw_idx = @ + 1]

\* A detection failure that leaves the frame index where it is.
AfterFailure_SameIndex(r) == r

\* The model or the conversion of its output raised; the frame is given up.
AfterFailure(r) ==
    [r EXCEPT !.raw_idx = @ + 1]

\* The tracker returned the identities tracked; every one has a valid box.
AfterDetection(r, tracked) ==
    LET current_detections == [i \in DOMAIN tracked |-> Det(tracked[i])]
        found == [i \in DOMAIN tracked |-> [frame |-> r.raw_idx, id |-> tracked[i]]]
        r1 == [r EXCEPT !.tracks = @ \o found,
                        !.prev_detections = current_detections,
                        !.processed = @ + 1,
                        !.raw_idx = @ + 1]
    IN  IF r1.max_frames # NoMaxFrames /\ r1.processed >= r1.max_frames
        THEN [r1 EXCEPT !.pc = "after_loop"]
        ELSE r1

\* The names bound when line 225 is reached: the parameters and every name
\* assigned on the way there.
NamesBound ==
    {"video_path", "conf", "sample_stride", "classes", "max_frames",
     "enable_adaptive_sampling", "adaptive_config", "cap", "meta_in", "W", "H",
     "fps_in", "model", "tracker", "adaptive_sampler", "config_overrides",
     "processed", "tracks", "prev_detections", "raw_idx", "frames_read",
     "frames_skipped", "ok", "frame", "should_process", "sampling_reason",
     "telemetry", "results", "dets", "tracked", "current_detections",
     "video_duration_s", "meta"}

\* After the loop: the capture is released and meta is built; then the name
\* sampling_metrics is read.
AfterLoop(r) ==
    LET meta == [frames |-> r.frames_read,
                 total_frames_read |-> r.frames_read,
                 frames_skipped |-> r.frames_skipped,
                 frames_processed |-> r.processed]
        r1 == [r EXCEPT !.released = TRUE, !.meta = meta]
    IN  IF "sampling_metrics" \in NamesBound
        THEN [r1 EXCEPT !.pc = "returned",
                        !.result = [returned |-> TRUE, meta |-> meta,
                                    tracks |-> r.tracks]]
        ELSE [r1 EXCEPT !.pc = "raised", !.error = "NameError"]

\* ------------------------------------------------------------ the history
\* hist records what the callers did since construction or the last reset:
\*   calls         number of should_process_frame calls
\*   events        the newest telemetry event after each call, oldest first
\*   ret           the last operation; for a call: its inputs (inp), the time
\*                 (at), what it returned, the branch it took and the stages
\*                 that fired
\*   all_lock      every call so far passed lock_on_active = TRUE
\*   increasing    the frame indices passed so far are strictly increasing
\*   plain         the calls so far were on frames 0,1,2,... with one and the
\*                 same frame, no seek event, no lock-on, no detections, and
\*                 every decision had reason Default
\*   cooldown_due  calls (without seek event, seek window or lock-on) still to
\*                 come of the id_switch_penalty calls that follow the last
\*                 identity switch
\*   quiet_run     consecutive normal-path calls, up to the last one, with low
\*                 average motion in which no crowd change and no identity
\*                 switch fired
\*   max_idx       the largest frame index passed so far, -1 when none
\*   seek_at       the time of the last seek event, -1 when none
\*   last_frame    the frame passed to the last call, <<>> when none
\*   scored        the frames given to the motion scorer, oldest first
\*   skipped_run   the calls that returned should_process = FALSE since the
\*                 last call that returned TRUE
\*   counted_at    the frame index of the last call that incremented
\*                 frames_processed, -1 when none
\*   detect_failed frames of run_detection whose detection raised
\*   got           the SamplingMetrics object a caller holds from get_metrics():
\*                 whether it is still the sampler's own object (live), its
\*                 counters when it was returned (seen) and, once reset() has
\*                 replaced the sampler's object, the counters it was left
\*                 with (frozen); kept over resets
NoRet == [op |-> "none"]
NoGot == [held |-> FALSE, live |-> FALSE, seen |-> SamplingMetrics,
          frozen |-> SamplingMetrics]

HistInit ==
    [calls |-> 0, events |-> <<>>, ret |-> NoRet, all_lock |-> TRUE,
     increasing |-> TRUE, plain |-> TRUE, cooldown_due |-> 0, quiet_run |-> 0,
     max_idx |-> -1, seek_at |-> -1, last_frame |-> <<>>,
     scored |-> <<>>, skipped_run |-> 0, counted_at |-> -1,
     detect_failed |-> 0, got |-> NoGot]

\* The call is pre-empted by a seek event, the seek boost window or lock-on.
Overridden(s, cfg, t, inp) ==
    inp.seek_event \/ InSeekWindow(s, cfg, t) \/ inp.lock_on_active

\* The identity set of the call differs from the stored non-empty set.
IdentitiesChanged(s, cfg, inp) ==
    /\ cfg.enable_id_tracking
    /\ inp.detections.given
    /\ s.prev_track_ids # {}
    /\ TrackIds(inp.detections.list) # s.prev_track_ids

\* The detection count of the call differs from the stored positive count by
\* more than detection_change_threshold.
CrowdChanged(s, cfg, inp) ==
    /\ cfg.enable_crowd_monitoring
    /\ inp.detections.given
    /\ s.prev_detection_count > 0
    /\ Abs(Len(inp.detections.list) - s.prev_detection_count) * 100
           > cfg.detection_change_threshold * s.prev_detection_count

Observe(h, s, cfg, t, inp, out) ==
    [calls |-> h.calls + 1,
     events |-> Append(h.events, out.s.telemetry_events[Len(out.s.telemetry_events)]),
     ret |-> [op |-> "call", inp |-> inp, at |-> t,
              should_process |-> out.should_process,
              reason |-> out.reason, interval |-> out.interval,
              branch |-> out.branch, motion |-> out.motion,
              crowd_fired |-> out.crowd_fired, id_fired |-> out.id_fired],
     all_lock |-> h.all_lock /\ inp.lock_on_active,
     increasing |-> h.increasing /\ (h.calls = 0 \/ inp.frame_idx > s.frame_count),
     plain |-> /\ h.plain
               /\ inp.frame_idx = h.calls
               /\ ~inp.seek_event /\ ~inp.lock_on_active /\ ~inp.detections.given
               /\ (h.calls = 0 \/ inp.frame = h.last_frame)
               /\ out.reason = DEFAULT,
     cooldown_due |-> IF out.branch = "normal" /\ IdentitiesChanged(s, cfg, inp)
                      THEN cfg.id_switch_penalty
                      ELSE IF ~Overridden(s, cfg, t, inp) /\ h.cooldown_due > 0
                      THEN h.cooldown_due - 1
                      ELSE h.cooldown_due,
     quiet_run |-> IF out.branch # "normal" THEN h.quiet_run
                   ELSE IF out.motion = "low" /\ ~out.crowd_fired /\ ~out.id_fired
                   THEN h.quiet_run + 1
                   ELSE 0,
     max_idx |-> Max(h.max_idx, inp.frame_idx),
     seek_at |-> IF inp.seek_event THEN t ELSE h.seek_at,
     last_frame |-> inp.frame,
     scored |-> IF out.branch = "normal" /\ cfg.enable_motion_detection
                THEN Append(h.scored, inp.frame) ELSE h.scored,
     skipped_run |-> IF out.should_process THEN 0 ELSE h.skipped_run + 1,
     counted_at |-> IF out.s.metrics.frames_processed > s.metrics.frames_processed
                    THEN inp.frame_idx ELSE h.counted_at,
     detect_failed |-> h.detect_failed,
     got |-> h.got]

\* No second sampler was made; run_detection is not running.
NoTwin == [made |-> FALSE]

\* A second sampler, built like the session's but with its own
\* lock_on_boost_frames: its configuration, its state, and what its last
\* should_process_frame call returned.
TwinWith(cfg, lock_on_boost_frames) ==
    LET own == [cfg EXCEPT !.lock_on_boost_frames = lock_on_boost_frames]
    IN  [made |-> TRUE, config |-> own, sampler |-> AdaptiveFrameSampler(own),
         ret |-> NoRet]
NoRun == [pc |-> "idle"]

\* --------------------------------------------------------------- actions
Inputs(frame_idx, frame, detections, lock_on_active, seek_event) ==
    [frame_idx |-> frame_idx, frame |-> frame, detections |-> detections,
     lock_on_active |-> lock_on_active, seek_event |-> seek_event]

\* One call of should_process_frame, the limit-th of the session at most.
ShouldProcessFrame(limit, frame_idx, frame, detections, lock_on_active, seek_event) ==
    /\ hist.calls < limit
    /\ LET out == should_process_frame(sampler, config, now, frame_idx, frame,
                                       detections, lock_on_active, seek_event)
       IN  /\ sampler' = out.s
           /\ hist' = Observe(hist, sampler, config, now,
                              Inputs(frame_idx, frame, detections,
                                     lock_on_active, seek_event), out)
    /\ UNCHANGED <<config, now>>
    /\ UNCHANGED <<twin, run>>

\* One call with its inputs drawn from the given sets.
Call(limit, idxs, frames, dets, locks, seeks) ==
    \E frame_idx \in idxs, frame \in frames, detections \in dets,
       lock_on_active \in locks, seek_event \in seeks :
        ShouldProcessFrame(limit, frame_idx, frame, detections,
                           lock_on_active, seek_event)

\* The session's sampler and the second sampler get the same call at the same
\* time.
ShouldProcessFrameBoth(limit, frame_idx, frame, detections, lock_on_active, seek_event) ==
    /\ hist.calls < limit
    /\ twin.made
    /\ \E out \in {should_process_frame(sampler, config, now, frame_idx, frame,
                                         detections, lock_on_active, seek_event)},
          other \in {should_process_frame(twin.sampler, twin.config, now, frame_idx,
                                           frame, detections, lock_on_active,
                                           seek_event)} :
           /\ sampler' = out.s
           /\ hist' = Observe(hist, sampler, config, now,
                              Inputs(frame_idx, frame, detections,
                                     lock_on_active, seek_event), out)
           /\ twin' = [twin EXCEPT
                          !.sampler = other.s,
                          !.ret = [op |-> "call",
                                   should_process |-> other.should_process,
                                   reason |-> other.reason,
                                   interval |-> other.interval]]
    /\ UNCHANGED <<config, now, run>>

CallBoth(limit, idxs, frames, dets, locks, seeks) ==
    \E frame_idx \in idxs, frame \in frames, detections \in dets,
       lock_on_active \in locks, seek_event \in seeks :
        ShouldProcessFrameBoth(limit, frame_idx, frame, detections,
                               lock_on_active, seek_event)

\* Both samplers are reset.
ResetBoth ==
    /\ twin.made
    /\ sampler' = reset(sampler, config)
    /\ twin' = [twin EXCEPT !.sampler = reset(twin.sampler, twin.config),
                            !.ret = NoRet]
    /\ hist' = [HistInit EXCEPT
                   !.ret = [op |-> "reset", after_calls |-> hist.calls],
                   !.got = hist.got]
    /\ UNCHANGED <<config, now, run>>

\* sampler.reset()
Reset ==
    /\ sampler' = reset(sampler, config)
    /\ hist' = [HistInit EXCEPT
                   !.ret = [op |-> "reset", after_calls |-> hist.calls],
                   !.got = IF hist.got.live
                           THEN [hist.got EXCEPT !.live = FALSE,
                                                 !.frozen = sampler.metrics]
                           ELSE hist.got]
    /\ UNCHANGED <<config, now>>
    /\ UNCHANGED <<twin, run>>

\* The wall clock advances between two calls.
Tick ==
    /\ now < Epoch + MaxTicks
    /\ now' = now + 1
    /\ UNCHANGED <<config, sampler, hist>>
    /\ UNCHANGED <<twin, run>>

\* The session's sampler is made by create_adaptive_sampler, before it is used.
CreateAdaptiveSampler(video_fps, config_overrides) ==
    /\ hist.ret.op = "none"
    /\ config' = create_adaptive_sampler(video_fps, config_overrides)
    /\ sampler' = AdaptiveFrameSampler(config')
    /\ hist' = [HistInit EXCEPT
                   !.ret = [op |-> "create", video_fps |-> video_fps,
                            overrides |-> config_overrides]]
    /\ UNCHANGED now
    /\ UNCHANGED <<twin, run>>

\* sampler.update_config(**kwargs)
UpdateConfig(kwargs) ==
    LET out == update_config(config, kwargs)
    IN  /\ config' = out.config
        /\ hist' = [hist EXCEPT !.ret = [op |-> "update", kwargs |-> kwargs,
                                         before |-> config, raised |-> out.raised]]
        /\ UNCHANGED <<sampler, now>>
        /\ UNCHANGED <<twin, run>>

\* A caller that holds no metrics object yet keeps what sampler.get_metrics()
\* returns.
GetMetrics ==
    /\ ~hist.got.held
    /\ hist' = [hist EXCEPT !.got = get_metrics(sampler),
                            !.ret = [op |-> "get_metrics"]]
    /\ UNCHANGED <<config, sampler, now>>
    /\ UNCHANGED <<twin, run>>

\* What the caller reads now in the object get_metrics returned: the sampler's
\* metrics while the sampler still owns that object, and the counters the
\* object was left with once reset() gave the sampler a new one.
MetricsHeld == IF hist.got.live THEN sampler.metrics ELSE hist.got.frozen

\* A caller keeps what sampler.get_telemetry_events(since_timestamp) returns.
GetTelemetryEvents(since_timestamp) ==
    /\ hist.ret.op \notin {"events", "cleared"}
    /\ LET out == get_telemetry_events(sampler, since_timestamp)
       IN  hist' = [hist EXCEPT !.ret =
                       [op |-> "events", since |-> since_timestamp,
                        list |-> out.list, is_buffer |-> out.is_buffer]]
    /\ UNCHANGED <<config, sampler, now>>
    /\ UNCHANGED <<twin, run>>

\* The caller empties the list it was given (list.clear()); the sampler's
\* buffer is emptied with it when the list is the buffer itself.
ClearReturnedList ==
    /\ hist.ret.op = "events"
    /\ hist.ret.list # <<>>
    /\ hist' = [hist EXCEPT !.ret = [op |-> "cleared",
                                     is_buffer |-> hist.ret.is_buffer]]
    /\ sampler' = IF hist.ret.is_buffer
                  THEN [sampler EXCEPT !.telemetry_events = <<>>]
                  ELSE sampler
    /\ UNCHANGED <<config, now>>
    /\ UNCHANGED <<twin, run>>

\* A caller reads the two derived properties of the metrics object.
ReadRatios ==
    /\ hist.ret.op # "ratios"
    /\ hist' = [hist EXCEPT !.ret =
                   [op |-> "ratios", of |-> sampler.metrics,
                    processing_ratio |-> processing_ratio(sampler.metrics),
                    efficiency_score |-> efficiency_score(sampler.metrics)]]
    /\ UNCHANGED <<config, sampler, now>>
    /\ UNCHANGED <<twin, run>>

\* The rest of a pass of the frame loop, once the sampling decision is known:
\* the skip, the failed detection, or the detection with the identities the
\* tracker reports.
Proceed(r, should_process, outcome) ==
    IF ~should_process THEN AfterSkip(r)
    ELSE IF outcome.failed THEN AfterFailure(r)
    ELSE AfterDetection(r, outcome.tracked)

\* One pass of run_detection's frame loop on a frame the capture delivers.
ReadFrame(frame, outcome) ==
    /\ run.pc = "loop"
    /\ run.frames_read < MaxVideoFrames
    /\ IF run.enable_adaptive_sampling
       THEN \E dec \in {integrate_with_detection_pipeline(
                             sampler, config, now, run.raw_idx, frame,
                             Detections(run.prev_detections), FALSE, FALSE)} :
               /\ sampler' = dec.out.s
               /\ hist' = [Observe(hist, sampler, config, now,
                                   Inputs(run.raw_idx, frame,
                                          Detections(run.prev_detections),
                                          FALSE, FALSE),
                                   dec.out)
                              EXCEPT !.detect_failed =
                                  IF dec.out.should_process /\ outcome.failed
                                  THEN @ + 1 ELSE @]
               /\ run' = Proceed([run EXCEPT !.frames_read = @ + 1],
                                 dec.out.should_process, outcome)
       ELSE \E should_process \in {run.raw_idx % run.sample_stride = 0} :
               /\ sampler' = sampler
               /\ hist' = [hist EXCEPT
                              !.detect_failed =
                                  IF should_process /\ outcome.failed
                                  THEN @ + 1 ELSE @,
                              !.ret = [op |-> "fixed_stride", idx |-> run.raw_idx]]
               /\ run' = Proceed([run EXCEPT !.frames_read = @ + 1],
                                 should_process, outcome)
    /\ UNCHANGED <<config, now, twin>>

\* cap.read() delivers no frame: the loop ends.
EndOfVideo ==
    /\ run.pc = "loop"
    /\ run' = [run EXCEPT !.pc = "after_loop"]
    /\ UNCHANGED <<config, sampler, now, hist, twin>>

\* The statements of run_detection after the loop.
Finish ==
    /\ run.pc = "after_loop"
    /\ run' = AfterLoop(run)
    /\ UNCHANGED <<config, sampler, now, hist, twin>>

\* ------------------------------------------------------------ input sets
FrameIdxs == 0..MaxFrameIdx
StillFrame == [p \in 1..NPix |-> Plain(0)]
DimFrame == [p \in 1..NPix |-> Plain(20)]
HalfFrame == [p \in 1..NPix |-> IF p = 1 THEN Plain(100) ELSE Plain(0)]
MovedFrame == [p \in 1..NPix |-> Plain(100)]
\* A pixel-fine checkerboard of black and white, and the same with the two swapped.
CheckerFrame == [p \in 1..NPix |-> Region(0, 255)]
InverseCheckerFrame == [p \in 1..NPix |-> Region(255, 0)]

\* Frame rates: unknown, zero, negative, and both sides of 30 and of 60.
Rates == {NoFps, Fps(0), Fps(-1), Fps(15), Fps(29), Fps(30), Fps(59), Fps(60), Fps(120)}

\* Keyword arguments naming two fields of the configuration and one name that
\* is no field.
OverridePairs ==
    {<<"default_interval", 5>>, <<"max_interval", 2>>, <<"max_interval", 6>>,
     <<"frame_skip", 7>>}
Kwargs ==
    {q \in UNION {[1..n -> OverridePairs] : n \in 0..MaxOverrides} :
        \A i, j \in DOMAIN q : i # j => q[i][1] # q[j][1]}

\* since_timestamp: none, and times from before the first event to after the last.
Sinces == {NoTimestamp} \cup {Timestamp(v) : v \in (Epoch - 1)..(Epoch + MaxTicks + 1)}

Ids12 == Detections(<<Det(1), Det(2)>>)
Ids13 == Detections(<<Det(1), Det(3)>>)
Ids12345 == Detections(<<Det(1), Det(2), Det(3), Det(4), Det(5)>>)
Anon2 == Detections(<<NoIdDet, NoIdDet>>)
Anon5 == Detections(<<NoIdDet, NoIdDet, NoIdDet, NoIdDet, NoIdDet>>)
Empty == Detections(<<>>)
Mixed == Detections(<<Det(1), NoIdDet>>)

\* ------------------------------------------------------- specifications
InitWith(cfg) ==
    /\ config = cfg
    /\ sampler = AdaptiveFrameSampler(cfg)
    /\ now = Epoch
    /\ hist = HistInit
    /\ twin = NoTwin
    /\ run = NoRun

\* Any mix of calls with and without seek event and lock-on, of resets and of
\* clock ticks, on frame indices in any order (gaps, repeats, going back).
Init == InitWith(AdaptiveSamplingConfig(1, 3, 2))
Next ==
    \/ Call(MaxCalls, FrameIdxs, {StillFrame}, {NoDetections},
            BOOLEAN, BOOLEAN)
    \/ Reset
    \/ Tick
Spec == Init /\ [][Next]_vars

\* A detect loop: frames 0,1,2,... with tracked identities that change, and
\* seek events and lock-on at any call.
NextIds ==
    \/ Call(MaxCalls + 1, {hist.calls}, {StillFrame}, {NoDetections, Ids12, Ids13},
            BOOLEAN, BOOLEAN)
    \/ Reset
    \/ Tick
SpecIds == Init /\ [][NextIds]_vars

\* A detect loop whose detection lists grow and shrink, with and without
\* identities, over frames with and without motion; default_interval is above
\* min_interval + 1.
InitCrowd == InitWith(AdaptiveSamplingConfig(1, 4, 3))
NextCrowd ==
    \/ Call(MaxCalls, {hist.calls}, {StillFrame, MovedFrame},
            {NoDetections, Anon2, Anon5, Ids12, Ids12345}, BOOLEAN, {FALSE})
    \/ Reset
SpecCrowd == InitCrowd /\ [][NextCrowd]_vars

\* A detect loop over still, partly moving and moving frames, under a
\* configuration with max_interval above default_interval + 1 and one with
\* max_interval = default_interval.
InitStable ==
    \E cfg \in {AdaptiveSamplingConfig(1, 4, 2), AdaptiveSamplingConfig(1, 2, 2)} :
        InitWith(cfg)
NextStable ==
    \/ Call(MaxCalls, {hist.calls}, {StillFrame, HalfFrame, MovedFrame},
            {NoDetections, Ids12, Ids13}, BOOLEAN, {FALSE})
    \/ Reset
SpecStable == InitStable /\ [][NextStable]_vars

\* A player that replays and jumps: frame indices in any order, tracked
\* identities that change, lock-on and seek events at any call.
NextReplay ==
    \/ Call(MaxCalls, FrameIdxs, {StillFrame}, {Ids12, Ids13}, BOOLEAN, BOOLEAN)
    \/ Reset
SpecReplay == Init /\ [][NextReplay]_vars

\* SamplingMetrics objects built with synthetic counters, as the unit tests
\* build them, and read through their derived properties.
InitMetrics ==
    \E p \in 0..MaxCount, n \in 0..MaxCount, d \in 0..MaxCount :
        /\ config = AdaptiveSamplingConfig(1, 3, 2)
        /\ sampler = [AdaptiveFrameSampler(config) EXCEPT
                         !.metrics = [SamplingMetrics EXCEPT
                                         !.frames_processed = p,
                                         !.total_frames = n,
                                         !.detection_count = d]]
        /\ now = Epoch
        /\ hist = HistInit
        /\ twin = NoTwin
        /\ run = NoRun
NextMetrics == ReadRatios
SpecMetrics == InitMetrics /\ [][NextMetrics]_vars

\* A session whose sampler comes from create_adaptive_sampler.
InitConfig ==
    /\ config = create_adaptive_sampler(NoFps, <<>>)
    /\ sampler = AdaptiveFrameSampler(config)
    /\ now = Epoch
    /\ hist = HistInit
    /\ twin = NoTwin
    /\ run = NoRun
NextConfig ==
    \/ \E video_fps \in Rates, config_overrides \in Kwargs :
           CreateAdaptiveSampler(video_fps, config_overrides)
    \/ \E kwargs \in Kwargs : UpdateConfig(kwargs)
    \/ Call(MaxCalls, {hist.calls}, {StillFrame}, {NoDetections}, {FALSE}, {FALSE})
    \/ Reset
SpecConfig == InitConfig /\ [][NextConfig]_vars

\* A reporting caller that fetches the metrics at any point of a session.
NextSnapshot ==
    \/ Call(MaxCalls, {hist.calls}, {StillFrame}, {NoDetections, Ids12},
            BOOLEAN, {FALSE})
    \/ GetMetrics
    \/ Reset
SpecSnapshot == Init /\ [][NextSnapshot]_vars

\* A monitoring caller that reads the telemetry log during a session.
NextTelemetry ==
    \/ Call(MaxCalls, {hist.calls}, {StillFrame}, {NoDetections}, BOOLEAN, {FALSE})
    \/ Tick
    \/ \E since_timestamp \in Sinces : GetTelemetryEvents(since_timestamp)
    \/ ClearReturnedList
    \/ Reset
SpecTelemetry == Init /\ [][NextTelemetry]_vars

\* A detect loop whose detection lists are empty, without identities, partly
\* and fully with identities, over still frames.
NextDetections ==
    \/ Call(MaxCalls, {hist.calls}, {StillFrame},
            {NoDetections, Empty, Anon2, Anon5, Mixed, Ids12}, BOOLEAN, {FALSE})
    \/ Reset
SpecDetections == Init /\ [][NextDetections]_vars

\* A detect loop over plain and finely patterned frames; lock-on calls leave
\* the motion scorer out.
NextMotion ==
    \/ Call(MaxCalls, {hist.calls},
            {StillFrame, MovedFrame, CheckerFrame, InverseCheckerFrame},
            {NoDetections}, BOOLEAN, {FALSE})
    \/ Reset
SpecMotion == Init /\ [][NextMotion]_vars

\* A detect loop on frames 0,1,2,... under valid configurations, among them
\* one that starts at max_interval and one that reaches it when the scene is
\* stable, with seek events, lock-on and changing identities.
InitSteady ==
    \E cfg \in {AdaptiveSamplingConfig(1, 3, 3), AdaptiveSamplingConfig(1, 3, 2),
                AdaptiveSamplingConfig(2, 2, 2)} :
        InitWith(cfg)
NextSteady ==
    \/ Call(MaxCalls, {hist.calls}, {StillFrame},
            {NoDetections, Ids12, Ids13}, BOOLEAN, BOOLEAN)
    \/ Reset
    \/ Tick
SpecSteady == InitSteady /\ [][NextSteady]_vars

\* A detect loop in which motion, crowd change, identity switch and stability
\* fire in every combination, under configurations with min_interval <=
\* max_interval whose default_interval lies below, inside and above that range.
InitClamp ==
    \E cfg \in {AdaptiveSamplingConfig(2, 3, 1), AdaptiveSamplingConfig(1, 2, 3),
                AdaptiveSamplingConfig(2, 2, 2), AdaptiveSamplingConfig(1, 4, 2)} :
        InitWith(cfg)
NextClamp ==
    \/ Call(MaxCalls, {hist.calls}, {StillFrame, MovedFrame},
            {NoDetections, Anon2, Anon5, Ids12, Ids13}, {FALSE}, {FALSE})
    \/ Reset
SpecClamp == InitClamp /\ [][NextClamp]_vars

\* Two samplers whose configurations differ in lock_on_boost_frames only, one
\* with the boost off or longer than the other's, fed the same detect loop
\* with lock-on that comes and goes, seek events and changing identities.
BoostFrames == {0, 3}
InitTwin ==
    \E lock_on_boost_frames \in BoostFrames :
        /\ config = AdaptiveSamplingConfig(1, 3, 2)
        /\ sampler = AdaptiveFrameSampler(config)
        /\ now = Epoch
        /\ hist = HistInit
        /\ twin = TwinWith(config, lock_on_boost_frames)
        /\ run = NoRun
NextTwin ==
    \/ CallBoth(MaxCalls, {hist.calls}, {StillFrame}, {NoDetections, Ids12, Ids13},
                BOOLEAN, BOOLEAN)
    \/ ResetBoth
    \/ Tick
SpecTwin == InitTwin /\ [][NextTwin]_vars

\* run_detection on a video that opens, of any length up to MaxVideoFrames,
\* with adaptive sampling or a fixed stride, with and without max_frames; a
\* detection may fail on any frame, and the tracker reports no, the same or
\* changed identities.
Outcomes ==
    {[failed |-> TRUE, tracked |-> <<>>]}
        \cup {[failed |-> FALSE, tracked |-> ids] : ids \in {<<>>, <<1, 2>>, <<1, 3>>}}
InitDetector ==
    \E enable_adaptive_sampling \in BOOLEAN, sample_stride \in {1, 2},
       max_frames \in {NoMaxFrames, 2} :
        /\ config = IF enable_adaptive_sampling
                    THEN create_adaptive_sampler(Fps(30), <<>>) ELSE NoConfig
        /\ sampler = IF enable_adaptive_sampling
                     THEN AdaptiveFrameSampler(config) ELSE NoSampler
        /\ now = Epoch
        /\ hist = HistInit
        /\ twin = NoTwin
        /\ run = run_detection(enable_adaptive_sampling, sample_stride, max_frames)
NextDetector ==
    \/ \E frame \in {StillFrame, MovedFrame}, outcome \in Outcomes :
           ReadFrame(frame, outcome)
    \/ EndOfVideo
    \/ Finish
SpecDetector == InitDetector /\ [][NextDetector]_vars

\* A detect loop over still and moving frames with tracked identities that
\* change, in which seek events, the seek window, lock-on and the
\* identity-switch cooldown pre-empt the adaptive path at any call.
NextOverride ==
    \/ Call(MaxCalls, {hist.calls}, {StillFrame, MovedFrame},
            {NoDetections, Ids12, Ids13}, BOOLEAN, BOOLEAN)
    \/ Reset
    \/ Tick
SpecOverride == Init /\ [][NextOverride]_vars

\* A detect loop over still and moving frames on a sampler built with motion
\* detection on or off, whose caller may switch motion detection off and on
\* between two calls with update_config.
MotionSwitches ==
    {<<<<"enable_motion_detection", FALSE>>>>, <<<<"enable_motion_detection", TRUE>>>>}
InitToggle ==
    \E enable_motion_detection \in BOOLEAN :
        InitWith([AdaptiveSamplingConfig(1, 3, 2) EXCEPT
                     !.enable_motion_detection = enable_motion_detection])
NextToggle ==
    \/ Call(MaxCalls, {hist.calls}, {StillFrame, MovedFrame},
            {NoDetections, Ids12}, BOOLEAN, {FALSE})
    \/ \E kwargs \in MotionSwitches : UpdateConfig(kwargs)
    \/ Reset
SpecToggle == InitToggle /\ [][NextToggle]_vars

\* ================================================================ claims
IsCall == hist.ret.op = "call"
\* The step is a call of should_process_frame.
CallStep == hist'.calls = hist.calls + 1
\* The newest n elements of q.
Newest(n, q) == SubSeq(q, Len(q) - Min(n, Len(q)) + 1, Len(q))
LastEvent(s) == s.telemetry_events[Len(s.telemetry_events)]

\* C1: after any sequence of should_process_frame calls since construction or
\* the last reset, frames_processed + frames_skipped equals the number of calls.
C1_ProcessedPlusSkippedIsCalls ==
    sampler.metrics.frames_processed + sampler.metrics.frames_skipped = hist.calls

\* C2: every call with seek_event = TRUE returns should_process = TRUE and
\* records the reason UserSeek in metrics.last_reason and in the telemetry event.
C2_SeekEventAlwaysProcessed ==
    (IsCall /\ hist.ret.inp.seek_event) =>
        /\ hist.ret.should_process
        /\ hist.ret.reason = USER_SEEK
        /\ sampler.metrics.last_reason = USER_SEEK
        /\ LastEvent(sampler).reason = USER_SEEK
        /\ LastEvent(sampler).frame_idx = hist.ret.inp.frame_idx

\* C2 witness: a seek event with lock-on and detections passed while the
\* identity-switch cooldown is running.
C2_Witness ==
    /\ IsCall /\ hist.ret.inp.seek_event
    /\ hist.ret.inp.lock_on_active
    /\ hist.ret.inp.detections.given
    /\ sampler.id_switch_boost_remaining > 0

\* C3: when every call of the session passes lock_on_active = TRUE on strictly
\* increasing frame indices, every call returns should_process = TRUE and every
\* decision has interval 1.
C3_LockOnProcessesEveryFrame ==
    (IsCall /\ hist.all_lock /\ hist.increasing) =>
        /\ hist.ret.should_process
        /\ hist.ret.interval = 1

\* C3 witness: a second or later lock-on call of such a session, taken by the
\* lock-on branch.
C3_Witness ==
    /\ IsCall /\ hist.all_lock /\ hist.increasing
    /\ hist.calls >= 2
    /\ hist.ret.branch = "lock_on"
    /\ sampler.metrics.lock_events >= 2

\* C4: on a fresh sampler called on frames 0,1,2,... with identical frames, no
\* seek, no lock-on and no detections, while the reason stays Default, frame k
\* is processed exactly when k is a multiple of default_interval.
C4_EveryIntervalthFrameFromZero ==
    (IsCall /\ hist.plain) =>
        (hist.ret.should_process
            <=> hist.ret.inp.frame_idx % config.default_interval = 0)

\* C5: when a normal-path call receives an identity set that differs from the
\* stored non-empty set, id_switches increases by at least 1 on that call, and
\* each of the next id_switch_penalty calls without seek event, seek window and
\* lock-on has interval 1 and reason IdSwitch.
C5_IdSwitchCooldown ==
    [][CallStep =>
        /\ (hist'.ret.branch = "normal"
              /\ IdentitiesChanged(sampler, config, hist'.ret.inp))
           => sampler'.metrics.id_switches >= sampler.metrics.id_switches + 1
        /\ (hist.cooldown_due > 0
              /\ ~Overridden(sampler, config, now, hist'.ret.inp))
           => (hist'.ret.interval = 1 /\ hist'.ret.reason = ID_SWITCH)
      ]_vars

\* C5 witness: the last of the id_switch_penalty calls after a switch has been
\* made.
C5_Witness ==
    /\ IsCall
    /\ hist.cooldown_due = 0
    /\ hist.ret.branch = "cooldown"
    /\ hist.ret.reason = ID_SWITCH
    /\ sampler.metrics.id_switches >= 1

\* C6 as stated: on a normal-path call whose detection count differs from the
\* stored positive count by more than detection_change_threshold, the reason
\* is CrowdChange and the interval is at most min_interval + 1.
C6_Original ==
    [][(CallStep /\ hist'.ret.branch = "normal"
          /\ CrowdChanged(sampler, config, hist'.ret.inp))
       => /\ hist'.ret.reason = CROWD_CHANGE
          /\ hist'.ret.interval <= config.min_interval + 1
      ]_vars

\* C6: on such a call the interval is at most min_interval + 1, and the reason
\* is CrowdChange unless the call's identity set also differs from the stored
\* non-empty identity set, in which case the reason is IdSwitch.
C6_CrowdChangeCapsInterval ==
    [][(CallStep /\ hist'.ret.branch = "normal"
          /\ CrowdChanged(sampler, config, hist'.ret.inp))
       => /\ hist'.ret.reason =
                 IF IdentitiesChanged(sampler, config, hist'.ret.inp)
                 THEN ID_SWITCH ELSE CROWD_CHANGE
          /\ hist'.ret.interval <= config.min_interval + 1
      ]_vars

\* C6 witness: a count of 2 followed by a count of 5 without identities on
\* still frames: reason CrowdChange, interval min_interval + 1 below
\* default_interval.
C6_Witness ==
    /\ IsCall
    /\ hist.ret.inp.detections = Anon5
    /\ hist.ret.reason = CROWD_CHANGE
    /\ hist.ret.motion = "low"
    /\ hist.ret.interval = config.min_interval + 1
    /\ hist.ret.interval < config.default_interval

\* C7 as stated: after stability_window consecutive quiet normal-path calls,
\* the next normal-path call in which no motion spike, crowd change or identity
\* switch fires has reason StableScene and interval
\* min(max_interval, default_interval + 1).
C7_Original ==
    [][(CallStep /\ hist.quiet_run >= config.stability_window
          /\ hist'.ret.branch = "normal"
          /\ hist'.ret.motion # "high"
          /\ ~CrowdChanged(sampler, config, hist'.ret.inp)
          /\ ~IdentitiesChanged(sampler, config, hist'.ret.inp))
       => /\ hist'.ret.reason = STABLE_SCENE
          /\ hist'.ret.interval =
                 Min(config.max_interval, config.default_interval + 1)
      ]_vars

\* C7: the same, for a next call whose own moving-average motion is below
\* motion_threshold_low as well.
C7_StableSceneRelaxesInterval ==
    [][(CallStep /\ hist.quiet_run >= config.stability_window
          /\ hist'.ret.branch = "normal"
          /\ hist'.ret.motion = "low"
          /\ ~CrowdChanged(sampler, config, hist'.ret.inp)
          /\ ~IdentitiesChanged(sampler, config, hist'.ret.inp))
       => /\ hist'.ret.reason = STABLE_SCENE
          /\ hist'.ret.interval =
                 Min(config.max_interval, config.default_interval + 1)
      ]_vars

\* C7 witness: the call after stability_window quiet calls was quiet too and
\* got the relaxed interval, below max_interval.
C7_Witness ==
    /\ IsCall
    /\ hist.quiet_run > config.stability_window
    /\ hist.ret.reason = STABLE_SCENE
    /\ hist.ret.interval = config.default_interval + 1
    /\ hist.ret.interval < config.max_interval

\* C8: reset() leaves every piece of mutable session state equal to that of a
\* sampler freshly constructed with the same configuration, and a second
\* reset() changes nothing.
C8_ResetRestoresFreshState ==
    hist.ret.op = "reset" =>
        /\ sampler = AdaptiveFrameSampler(config)
        /\ reset(sampler, config) = sampler

\* C8 witness: a reset after two or more calls.
C8_Witness ==
    /\ hist.ret.op = "reset"
    /\ hist.ret.after_calls >= 2

\* C9: the telemetry log never holds more than max_telemetry_events events, and
\* it holds the newest ones recorded, in insertion order.
C9_TelemetryBounded ==
    /\ Len(sampler.telemetry_events) <= MaxTelemetryEvents
    /\ sampler.telemetry_events = Newest(MaxTelemetryEvents, hist.events)

\* C9 witness: capacity + 2 events have been recorded, the two earliest are gone.
C9_Witness ==
    /\ Len(hist.events) >= MaxTelemetryEvents + 2
    /\ Len(sampler.telemetry_events) = MaxTelemetryEvents
    /\ sampler.telemetry_events[1] # hist.events[1]
    /\ sampler.telemetry_events[1] # hist.events[2]

\* C10: every call, on every path, appends exactly one telemetry event, which
\* carries the call's frame index, the decision's reason and interval, and
\* processed equal to the returned should_process.
C10_OneEventPerCall ==
    [][CallStep =>
        LET e == LastEvent(sampler')
        IN  /\ sampler'.telemetry_events =
                   Newest(MaxTelemetryEvents, Append(sampler.telemetry_events, e))
            /\ e.frame_idx = hist'.ret.inp.frame_idx
            /\ e.reason = hist'.ret.reason
            /\ e.interval = hist'.ret.interval
            /\ e.processed = hist'.ret.should_process
            /\ e.timestamp = now
      ]_vars

\* C10 witness: a skipped frame's event has been appended to a full log.
C10_Witness ==
    /\ IsCall
    /\ Len(hist.events) > MaxTelemetryEvents
    /\ ~hist.ret.should_process
    /\ ~LastEvent(sampler).processed

\* C11: for all counter values, processing_ratio is 0 when total_frames is 0
\* and otherwise frames_processed / total_frames * 100; efficiency_score is 0
\* when frames_processed is 0 and otherwise detection_count / frames_processed.
C11_DerivedRatios ==
    hist.ret.op = "ratios" =>
        LET m == hist.ret.of
            pr == hist.ret.processing_ratio
            es == hist.ret.efficiency_score
        IN  /\ pr.den > 0 /\ es.den > 0
            /\ m.total_frames = 0 => pr.num = 0
            /\ m.total_frames # 0 =>
                   pr.num * m.total_frames = m.frames_processed * 100 * pr.den
            /\ m.frames_processed = 0 => es.num = 0
            /\ m.frames_processed # 0 =>
                   es.num * m.frames_processed = m.detection_count * es.den

C11_Witness ==
    /\ hist.ret.op = "ratios"
    /\ hist.ret.of.total_frames = 4 /\ hist.ret.of.frames_processed = 2
    /\ hist.ret.of.detection_count = 3
    /\ hist.ret.processing_ratio.num = 50 * hist.ret.processing_ratio.den
    /\ hist.ret.efficiency_score.num * 2 = 3 * hist.ret.efficiency_score.den

\* C12: between two resets, none of frames_processed, frames_skipped,
\* total_frames, detection_count, id_switches and lock_events decreases across
\* a should_process_frame call, for any inputs, frame indices that repeat or go
\* backwards included.
C12_CountersNeverDecrease ==
    [][CallStep =>
        /\ sampler'.metrics.frames_processed >= sampler.metrics.frames_processed
        /\ sampler'.metrics.frames_skipped >= sampler.metrics.frames_skipped
        /\ sampler'.metrics.total_frames >= sampler.metrics.total_frames
        /\ sampler'.metrics.detection_count >= sampler.metrics.detection_count
        /\ sampler'.metrics.id_switches >= sampler.metrics.id_switches
        /\ sampler'.metrics.lock_events >= sampler.metrics.lock_events]_vars

\* A call on a frame index below the previous one, made when every counter
\* has already moved.
C12_Witness ==
    /\ IsCall
    /\ hist.ret.inp.frame_idx < hist.max_idx
    /\ sampler.metrics.frames_processed > 0
    /\ sampler.metrics.frames_skipped > 0
    /\ sampler.metrics.detection_count > 0
    /\ sampler.metrics.id_switches > 0
    /\ sampler.metrics.lock_events > 0

\* C13: after every should_process_frame call on any path, the seek-event path
\* included, metrics.total_frames is 1 + the largest frame index passed to any
\* call since construction or the last reset, also when indices have gaps,
\* repeat or go backwards.
C13_TotalFramesIsWatermark ==
    hist.calls > 0 => sampler.metrics.total_frames = hist.max_idx + 1

\* A seek-event call on a frame index below the largest one seen.
C13_Witness ==
    /\ IsCall
    /\ hist.ret.inp.seek_event
    /\ hist.ret.inp.frame_idx + 1 < hist.max_idx
    /\ sampler.metrics.total_frames = hist.max_idx + 1

\* The branch the priority order seek event > seek boost window > lock-on >
\* identity-switch cooldown > normal calculation gives a call with inputs inp,
\* from the state before the call.
C14_BranchDue(inp) ==
    IF inp.seek_event THEN "seek_event"
    ELSE IF hist.seek_at >= 0 /\ now - hist.seek_at < config.seek_event_window
    THEN "seek_window"
    ELSE IF inp.lock_on_active THEN "lock_on"
    ELSE IF sampler.id_switch_boost_remaining > 0 THEN "cooldown"
    ELSE "normal"

\* C14: each call takes exactly one branch, chosen in the priority order seek
\* event > seek boost window > lock-on > identity-switch cooldown > normal
\* adaptive calculation, and only the effects of that branch occur: lock_events
\* is incremented if and only if the lock-on branch is taken, the cooldown
\* counter is decremented if and only if the cooldown branch is taken, and the
\* scene state of the normal calculation moves only in the normal branch.
C14_OneBranchInPriorityOrder ==
    [][CallStep =>
        LET due == C14_BranchDue(hist'.ret.inp)
        IN  /\ hist'.ret.branch = due
            /\ due \in {"seek_event", "seek_window"} => hist'.ret.reason = USER_SEEK
            /\ due = "lock_on" => hist'.ret.reason = LOCK_ON_ACTIVE
            /\ due = "cooldown" => hist'.ret.reason = ID_SWITCH
            /\ sampler'.metrics.lock_events =
                   sampler.metrics.lock_events + (IF due = "lock_on" THEN 1 ELSE 0)
            /\ due # "lock_on" =>
                   sampler'.lock_on_boost_remaining = sampler.lock_on_boost_remaining
            /\ due = "cooldown" =>
                   sampler'.id_switch_boost_remaining =
                       sampler.id_switch_boost_remaining - 1
            /\ due \in {"seek_event", "seek_window", "lock_on"} =>
                   sampler'.id_switch_boost_remaining =
                       sampler.id_switch_boost_remaining
            /\ due = "normal" =>
                   sampler'.id_switch_boost_remaining >=
                       sampler.id_switch_boost_remaining
            /\ due # "normal" =>
                   /\ sampler'.prev_track_ids = sampler.prev_track_ids
                   /\ sampler'.prev_detection_count = sampler.prev_detection_count
                   /\ sampler'.motion_history = sampler.motion_history
                   /\ sampler'.stability_counter = sampler.stability_counter
                   /\ sampler'.metrics.id_switches = sampler.metrics.id_switches]_vars

\* A call in the seek window that passed lock_on_active while a cooldown was
\* due: neither lock_events nor the cooldown counter moved.
C14_Witness ==
    /\ IsCall
    /\ hist.ret.branch = "seek_window"
    /\ hist.ret.inp.lock_on_active
    /\ sampler.id_switch_boost_remaining > 0
    /\ sampler.metrics.lock_events = 0

C16_ProcessedAndSkippedEffects ==
    [][CallStep =>
        LET inp == hist'.ret.inp
            found == IF inp.detections.given THEN Len(inp.detections.list) ELSE 0
        IN  IF hist'.ret.should_process
            THEN /\ sampler'.last_processed_frame = inp.frame_idx
                 /\ sampler'.metrics.frames_processed =
                        sampler.metrics.frames_processed + 1
                 /\ sampler'.metrics.detection_count =
                        sampler.metrics.detection_count + found
            ELSE /\ sampler'.last_processed_frame = sampler.last_processed_frame
                 /\ sampler'.metrics.frames_processed =
                        sampler.metrics.frames_processed
                 /\ sampler'.metrics.detection_count =
                        sampler.metrics.detection_count
                 /\ sampler'.metrics.frames_skipped =
                        sampler.metrics.frames_skipped + 1]_vars

\* C17: after a seek event, every call without seek event made while the
\* wall-clock time since that seek is less than seek_event_window gets interval
\* 1 and reason UserSeek and is still subject to the elapsed-interval gate; once
\* the window has elapsed, and on a fresh or reset sampler that has seen no
\* seek, calls do not take this branch.
C17_SeekBoostWindow ==
    [][(CallStep /\ ~hist'.ret.inp.seek_event) =>
        IF hist.seek_at >= 0 /\ now - hist.seek_at < config.seek_event_window
        THEN /\ hist'.ret.interval = 1
             /\ hist'.ret.reason = USER_SEEK
             /\ sampler'.metrics.last_reason = USER_SEEK
             /\ hist'.ret.should_process <=>
                    hist'.ret.inp.frame_idx - sampler.last_processed_frame >= 1
        ELSE /\ hist'.ret.branch # "seek_window"
             /\ hist'.ret.reason # USER_SEEK]_vars

\* A call inside the window of an earlier seek that the gate skipped.
C17_Witness ==
    /\ IsCall
    /\ ~hist.ret.inp.seek_event
    /\ hist.seek_at >= 0
    /\ hist.ret.at - hist.seek_at < config.seek_event_window
    /\ hist.ret.reason = USER_SEEK /\ hist.ret.interval = 1
    /\ ~hist.ret.should_process

\* C18 as stated: with no overrides, rate >= 60 gives default_interval 3 and
\* max_interval 12, 30 <= rate < 60 gives 2 and 8, every other rate gives 1
\* and 4, and an unknown rate (None) is treated as 30.
C18_Original ==
    (hist.ret.op = "create" /\ hist.ret.overrides = <<>>) =>
        LET rate == IF hist.ret.video_fps.given THEN hist.ret.video_fps.value ELSE 30
        IN  IF rate >= 60
            THEN config.default_interval = 3 /\ config.max_interval = 12
            ELSE IF rate >= 30
            THEN config.default_interval = 2 /\ config.max_interval = 8
            ELSE config.default_interval = 1 /\ config.max_interval = 4

\* C18, amended: with no overrides, rate >= 60 gives default_interval 3 and
\* max_interval 12, 30 <= rate < 60 gives 2 and 8, every other rate but 0 gives
\* 1 and 4, and an unknown rate (None) and the rate 0 are treated as 30.
C18_FrameRateSizing ==
    (hist.ret.op = "create" /\ hist.ret.overrides = <<>>) =>
        LET v == hist.ret.video_fps
            rate == IF v.given /\ v.value # 0 THEN v.value ELSE 30
        IN  IF rate >= 60
            THEN config.default_interval = 3 /\ config.max_interval = 12
            ELSE IF rate >= 30
            THEN config.default_interval = 2 /\ config.max_interval = 8
            ELSE config.default_interval = 1 /\ config.max_interval = 4

\* A sampler made for the rate 0 with no overrides: sized as for 30.
C18_Witness ==
    /\ hist.ret.op = "create" /\ hist.ret.overrides = <<>>
    /\ hist.ret.video_fps = Fps(0)
    /\ config.default_interval = 2 /\ config.max_interval = 8
    /\ sampler.current_interval = 2

\* C19: update_config and the overrides of create_adaptive_sampler set every
\* named field that exists in the configuration to the supplied value
\* (overrides win over the frame-rate sizing table); an unknown field name
\* raises no error, leaves every configuration field unchanged and does not
\* stop the remaining overrides from being applied.
C19_OverridesTolerateUnknownFields ==
    /\ hist.ret.op = "update" =>
           /\ ~hist.ret.raised
           /\ DOMAIN config = DOMAIN hist.ret.before
           /\ \A f \in DOMAIN config :
                  config[f] = IF HasKey(hist.ret.kwargs, f)
                              THEN ValueOf(hist.ret.kwargs, f)
                              ELSE hist.ret.before[f]
    /\ hist.ret.op = "create" =>
           /\ DOMAIN config = DOMAIN AdaptiveSamplingConfigDefaults
           /\ \A f \in DOMAIN config :
                  config[f] = IF HasKey(hist.ret.overrides, f)
                              THEN ValueOf(hist.ret.overrides, f)
                              ELSE create_adaptive_sampler(hist.ret.video_fps, <<>>)[f]

\* An update whose first name is no field and whose second changed max_interval.
C19_Witness ==
    /\ hist.ret.op = "update"
    /\ hist.ret.kwargs = <<(<<"frame_skip", 7>>), (<<"max_interval", 6>>)>>
    /\ hist.ret.before.max_interval # 6
    /\ config.max_interval = 6
    /\ hist.calls > 0

\* C20: the value returned by get_metrics() is a snapshot: its counters and
\* derived ratios do not change when should_process_frame is called on the
\* sampler afterwards.
C20_GetMetricsIsSnapshot ==
    hist.got.held =>
        /\ MetricsHeld = hist.got.seen
        /\ processing_ratio(MetricsHeld) = processing_ratio(hist.got.seen)
        /\ efficiency_score(MetricsHeld) = efficiency_score(hist.got.seen)

\* The buffer positions of the events a read with since_timestamp must return.
C21_Due(since) ==
    {i \in DOMAIN sampler.telemetry_events :
        ~since.given \/ sampler.telemetry_events[i].timestamp >= since.value}

\* C21: get_telemetry_events() with no timestamp returns all buffered events in
\* insertion order; with a timestamp t it returns exactly the buffered events
\* whose timestamp is >= t, in insertion order; in both cases the returned list
\* is a copy: emptying it leaves the sampler's buffer as it was.
C21_TelemetryRead ==
    /\ hist.ret.op = "events" =>
           LET due == C21_Due(hist.ret.since)
           IN  /\ Len(hist.ret.list) = Cardinality(due)
               /\ \A i \in due :
                      hist.ret.list[Cardinality({j \in due : j <= i})] =
                          sampler.telemetry_events[i]
    /\ hist.ret.op = "cleared" =>
           /\ Len(sampler.telemetry_events) = Min(hist.calls, MaxTelemetryEvents)
           /\ sampler.telemetry_events = Newest(MaxTelemetryEvents, hist.events)

\* A read with a timestamp that kept the newer and left out the older events.
C21_Witness ==
    /\ hist.ret.op = "events"
    /\ hist.ret.since.given
    /\ Len(sampler.telemetry_events) = MaxTelemetryEvents
    /\ Len(hist.ret.list) > 0
    /\ Len(hist.ret.list) < Len(sampler.telemetry_events)

\* The step is a call on the normal adaptive path with a detection list.
NormalStepWithList ==
    /\ CallStep
    /\ hist'.ret.branch = "normal"
    /\ hist'.ret.inp.detections.given

\* C22: a detection without an 'id' field contributes nothing to the identity
\* set used for identity-switch comparison but is counted in the detection
\* count used for crowd-change comparison and in detection_count; a list made
\* only of such detections never arms the identity-switch cooldown on a sampler
\* whose previous identity set is empty.
C22_DetectionsWithoutId ==
    [][NormalStepWithList =>
        LET l == hist'.ret.inp.detections.list
            with_id == {i \in DOMAIN l : l[i].has_id}
        IN  /\ sampler'.prev_track_ids = {l[i].id : i \in with_id}
            /\ sampler'.prev_detection_count = Len(l)
            /\ hist'.ret.should_process =>
                   sampler'.metrics.detection_count =
                       sampler.metrics.detection_count + Len(l)
            /\ (with_id = {} /\ sampler.prev_track_ids = {}) =>
                   /\ ~hist'.ret.id_fired
                   /\ hist'.ret.reason # ID_SWITCH
                   /\ sampler'.id_switch_boost_remaining = 0
                   /\ sampler'.metrics.id_switches = sampler.metrics.id_switches]_vars

\* A processed call with two detections of which one has no 'id'.
C22_Witness ==
    /\ IsCall /\ hist.ret.branch = "normal"
    /\ hist.ret.inp.detections = Mixed
    /\ hist.ret.should_process
    /\ sampler.prev_track_ids = {1}
    /\ sampler.prev_detection_count = 2
    /\ sampler.metrics.detection_count >= 2

\* C23: on a normal-path call with crowd monitoring enabled and a detection
\* list supplied, when the stored previous count is 0 the crowd-change check is
\* skipped (reason never CrowdChange) for any current count, and in every case
\* the stored previous count equals the current list's length after the call.
C23_CrowdCheckSkippedAtZero ==
    [][(NormalStepWithList /\ config.enable_crowd_monitoring) =>
        /\ sampler'.prev_detection_count = Len(hist'.ret.inp.detections.list)
        /\ sampler.prev_detection_count = 0 =>
               /\ ~hist'.ret.crowd_fired
               /\ hist'.ret.reason # CROWD_CHANGE
               /\ sampler'.metrics.last_reason # CROWD_CHANGE]_vars

\* The first call of a session, with five detections: nothing to compare with.
C23_Witness ==
    /\ IsCall /\ hist.ret.branch = "normal"
    /\ hist.calls = 1
    /\ hist.ret.inp.detections = Anon5
    /\ sampler.prev_detection_count = 5
    /\ ~hist.ret.crowd_fired
    /\ hist.ret.reason = DEFAULT

\* The step is a call that runs the motion scorer.
ScoringStep ==
    /\ CallStep
    /\ hist'.ret.branch = "normal"
    /\ config.enable_motion_detection

\* The score of the scoring call of this step, as a number of regions out of NPix.
ScoreOfStep == sampler'.motion_history[Len(sampler'.motion_history)]

\* The frame stored by the last scoring call, as the caller passed it.
LastScored == hist.scored[Len(hist.scored)]

\* frame differs from other everywhere by more than the intensity threshold.
DiffersEverywhere(frame, other) ==
    \A p \in DOMAIN frame : \A k \in 1..2 :
        Abs(frame[p][k] - other[p][k]) > IntensityDelta

\* C24 as stated: the motion scorer returns 0 on the first frame after
\* construction or reset and 0 for a frame identical to the stored previous
\* frame, returns a value greater than 0 for a frame that differs everywhere by
\* more than the intensity threshold, and after every scoring call the stored
\* previous frame is the frame just scored.
C24_Original ==
    [][ScoringStep =>
        LET frame == hist'.ret.inp.frame
        IN  /\ hist.scored = <<>> => ScoreOfStep = 0
            /\ (hist.scored # <<>> /\ frame = LastScored) => ScoreOfStep = 0
            /\ (hist.scored # <<>> /\ DiffersEverywhere(frame, LastScored)) =>
                   ScoreOfStep > 0
            /\ sampler'.prev_frame_gray = Smoothed(frame)]_vars

\* C24, amended: the motion scorer returns 0 on the first frame after
\* construction or reset and 0 for a frame identical to the stored previous
\* frame, returns a value greater than 0 for a frame whose smoothed luminance
\* differs from the stored smoothed frame by more than the intensity threshold
\* in some region (a frame that differs everywhere but smooths to the same
\* luminance scores 0), and after every scoring call the stored previous frame
\* is the smoothed frame just scored.
C24_MotionScorer ==
    [][ScoringStep =>
        LET frame == hist'.ret.inp.frame
            moved == {p \in DOMAIN frame :
                         Abs(Smoothed(frame)[p] - Smoothed(LastScored)[p])
                             > IntensityDelta}
        IN  /\ hist.scored = <<>> => ScoreOfStep = 0
            /\ (hist.scored # <<>> /\ frame = LastScored) => ScoreOfStep = 0
            /\ (hist.scored # <<>> /\ moved # {}) => ScoreOfStep > 0
            /\ (hist.scored # <<>> /\ DiffersEverywhere(frame, LastScored)
                    /\ moved = {}) => ScoreOfStep = 0
            /\ sampler'.prev_frame_gray = Smoothed(frame)]_vars

\* A checkerboard scored after its inverse: every pixel differs by 255, the
\* score is 0.
C24_Witness ==
    /\ IsCall /\ hist.ret.branch = "normal"
    /\ Len(hist.scored) = 2
    /\ hist.scored[1] = InverseCheckerFrame
    /\ hist.scored[2] = CheckerFrame
    /\ sampler.motion_history = <<0, 0>>
    /\ sampler.prev_frame_gray = Smoothed(CheckerFrame)

\* C25: the configuration held by a sampler always satisfies
\* 1 <= min_interval <= default_interval <= max_interval, for every sampler
\* produced by create_adaptive_sampler with any overrides and after any
\* sequence of update_config calls.
C25_ConfigIntervalsOrdered ==
    /\ 1 <= config.min_interval
    /\ config.min_interval <= config.default_interval
    /\ config.default_interval <= config.max_interval

\* C26: in a session called on consecutive frame indices 0,1,2,... with a valid
\* configuration, no more than max_interval - 1 consecutive calls return
\* should_process = FALSE: any call whose frame index is at least max_interval
\* beyond the last processed frame index is processed.
C26_NoStarvation ==
    /\ [](hist.skipped_run <= config.max_interval - 1)
    /\ [][(CallStep /\ hist'.ret.inp.frame_idx - sampler.last_processed_frame
                          >= config.max_interval)
            => hist'.ret.should_process]_vars

\* Frames 0 and 1 skipped and frame 2 processed at interval 3 = max_interval.
C26_Witness ==
    /\ IsCall /\ hist.calls = 3
    /\ config.max_interval = 3
    /\ hist.ret.inp.frame_idx = 2 /\ hist.ret.interval = 3
    /\ ~hist.ret.inp.seek_event
    /\ hist.ret.should_process
    /\ ~hist.events[1].processed /\ ~hist.events[2].processed
    /\ hist.skipped_run = 0

\* C27: every decision produced by the normal adaptive path has an interval
\* within [min_interval, max_interval], for every combination of motion,
\* crowd-change, identity-switch and stability outcomes under a configuration
\* with min_interval <= max_interval.
C27_NormalIntervalWithinBounds ==
    (IsCall /\ hist.ret.branch = "normal"
        /\ config.min_interval <= config.max_interval) =>
        /\ config.min_interval <= hist.ret.interval
        /\ hist.ret.interval <= config.max_interval
        /\ sampler.current_interval = hist.ret.interval
        /\ sampler.metrics.current_interval = hist.ret.interval

\* A default decision under a default_interval below min_interval: raised to
\* min_interval.
C27_Witness ==
    /\ IsCall /\ hist.ret.branch = "normal"
    /\ config.default_interval < config.min_interval
    /\ hist.ret.reason = DEFAULT
    /\ hist.ret.interval = config.min_interval

\* The step is a call on the normal adaptive path.
NormalStep == CallStep /\ hist'.ret.branch = "normal"

\* The average motion stored by the call of this step is above
\* motion_threshold_high.
MotionSpikeInStep ==
    /\ config.enable_motion_detection
    /\ sampler'.metrics.avg_motion_score.num * 100
           > config.motion_threshold_high * sampler'.metrics.avg_motion_score.den

\* C28: when a motion spike and a crowd change both fire in the same
\* normal-path call and no identity switch fires, the decision's interval is
\* min_interval and its reason is CrowdChange; in general the reason is that of
\* the last stage that fired, in the order motion, crowd, identity, stability
\* (stability fires only when no earlier stage did).
C28_LastStageNamesReason ==
    [][NormalStep =>
        LET inp == hist'.ret.inp
            spike == MotionSpikeInStep
            crowd == CrowdChanged(sampler, config, inp)
            ids == IdentitiesChanged(sampler, config, inp)
            stable == sampler'.stability_counter >= config.stability_window
        IN  /\ (spike /\ crowd /\ ~ids) =>
                   /\ hist'.ret.interval = config.min_interval
                   /\ hist'.ret.reason = CROWD_CHANGE
            /\ hist'.ret.reason =
                   IF ids THEN ID_SWITCH
                   ELSE IF crowd THEN CROWD_CHANGE
                   ELSE IF spike THEN MOTION_SPIKE
                   ELSE IF stable THEN STABLE_SCENE
                   ELSE DEFAULT]_vars

\* A call in which motion spike and crowd change fired and no identity switch,
\* under a configuration with min_interval below max_interval.
C28_Witness ==
    /\ IsCall /\ hist.ret.branch = "normal"
    /\ hist.ret.motion = "high" /\ hist.ret.crowd_fired /\ ~hist.ret.id_fired
    /\ hist.ret.reason = CROWD_CHANGE
    /\ hist.ret.interval = config.min_interval
    /\ config.min_interval < config.max_interval

\* C29: an identity switch fires on a normal-path call only when the stored
\* previous identity set is non-empty and differs from the current set: the
\* first detection list of a session and any list following an empty stored set
\* never fire it, a non-empty stored set followed by a list with no identities
\* does fire it, and after every normal-path call with identity tracking
\* enabled and a list supplied the stored set equals the current identity set.
C29_IdentitySwitchFiring ==
    [][NormalStep =>
        LET det == hist'.ret.inp.detections
            ids == {det.list[i].id : i \in {j \in DOMAIN det.list : det.list[j].has_id}}
            due == /\ config.enable_id_tracking /\ det.given
                   /\ sampler.prev_track_ids # {}
                   /\ ids # sampler.prev_track_ids
        IN  /\ due =>
                   /\ sampler'.metrics.id_switches = sampler.metrics.id_switches + 1
                   /\ sampler'.id_switch_boost_remaining = config.id_switch_penalty
                   /\ hist'.ret.reason = ID_SWITCH
                   /\ hist'.ret.interval = config.min_interval
            /\ ~due =>
                   /\ sampler'.metrics.id_switches = sampler.metrics.id_switches
                   /\ sampler'.id_switch_boost_remaining =
                          sampler.id_switch_boost_remaining
                   /\ hist'.ret.reason # ID_SWITCH
            /\ (config.enable_id_tracking /\ det.given) =>
                   sampler'.prev_track_ids = ids
            /\ ~det.given => sampler'.prev_track_ids = sampler.prev_track_ids]_vars

\* A list without identities after a stored non-empty set: the switch fired
\* and the stored set is empty now.
C29_Witness ==
    /\ IsCall /\ hist.ret.branch = "normal"
    /\ hist.ret.inp.detections = Anon2
    /\ hist.ret.id_fired /\ hist.ret.reason = ID_SWITCH
    /\ sampler.prev_track_ids = {}
    /\ sampler.metrics.id_switches = 1

\* C30: under a fixed configuration the identity-switch cooldown counter always
\* satisfies 0 <= counter <= id_switch_penalty; it is set to id_switch_penalty
\* only when an identity switch is detected, decreases by exactly 1 on each call
\* that takes the cooldown branch, and is left unchanged by calls that take the
\* seek-event, seek-window or lock-on branch (the cooldown is paused, not
\* consumed, while those fire).
C30_CooldownCounter ==
    /\ [](/\ 0 <= sampler.id_switch_boost_remaining
          /\ sampler.id_switch_boost_remaining <= config.id_switch_penalty)
    /\ [][CallStep =>
           LET inp == hist'.ret.inp
               due == C14_BranchDue(inp)
               switched == due = "normal" /\ IdentitiesChanged(sampler, config, inp)
           IN  sampler'.id_switch_boost_remaining =
                   IF switched THEN config.id_switch_penalty
                   ELSE IF due = "cooldown"
                   THEN sampler.id_switch_boost_remaining - 1
                   ELSE sampler.id_switch_boost_remaining]_vars

\* A lock-on call made while the cooldown was due in full: the counter stayed.
C30_Witness ==
    /\ IsCall /\ hist.ret.branch = "lock_on"
    /\ hist.calls = 3
    /\ sampler.metrics.id_switches = 1
    /\ sampler.id_switch_boost_remaining = config.id_switch_penalty
    /\ config.id_switch_penalty > 1

\* The changed regions between two frames given to the motion scorer one after
\* the other.
ChangedBetween(prev, frame) ==
    Cardinality({p \in 1..NPix :
        Abs(Smoothed(prev)[p] - Smoothed(frame)[p]) > IntensityDelta})

\* The scores of the session in arrival order: 0 for the first scored frame,
\* then the changed regions of each scored frame against the one before it.
ScoresOfSession ==
    [k \in 1..Len(hist.scored) |->
        IF k = 1 THEN 0 ELSE ChangedBetween(hist.scored[k - 1], hist.scored[k])]

\* C31: with motion detection enabled, after every normal-path call the motion
\* history holds at most motion_history_size scores, they are the most recent
\* scores of the session in arrival order, and metrics.avg_motion_score is
\* their arithmetic mean.
C31_MotionHistoryIsFifo ==
    (IsCall /\ hist.ret.branch = "normal" /\ config.enable_motion_detection) =>
        /\ Len(sampler.motion_history) <= config.motion_history_size
        /\ sampler.motion_history
              = Newest(config.motion_history_size, ScoresOfSession)
        /\ sampler.metrics.avg_motion_score.num
                * Len(sampler.motion_history) * NPix
              = SumSeq(sampler.motion_history)
                  * sampler.metrics.avg_motion_score.den

\* C31 witness: the third scored frame of a session has pushed the first score
\* out of a history of two, and the two scores kept differ.
C31_Witness ==
    /\ IsCall /\ hist.ret.branch = "normal" /\ config.enable_motion_detection
    /\ Len(hist.scored) > config.motion_history_size
    /\ Len(sampler.motion_history) = config.motion_history_size
    /\ sampler.motion_history[1] > sampler.motion_history[2]
    /\ sampler.motion_history[2] > 0

\* C32: two samplers that differ only in lock_on_boost_frames and receive the
\* same sequence of calls return the same should_process, reason and interval
\* on every call and have equal metrics, also on the calls after
\* lock_on_active turns false.
C32_BoostCounterNeverInfluences ==
    (twin.made /\ IsCall) =>
        /\ twin.ret.should_process = hist.ret.should_process
        /\ twin.ret.reason = hist.ret.reason
        /\ twin.ret.interval = hist.ret.interval
        /\ twin.sampler.metrics = sampler.metrics

\* C32 witness: a call without lock-on that follows a lock-on call, taken on
\* the normal path while the longer boost of the second sampler is still armed
\* and the two counters differ.
C32_Witness ==
    /\ twin.made /\ IsCall
    /\ ~hist.ret.inp.lock_on_active
    /\ hist.ret.branch = "normal"
    /\ sampler.metrics.lock_events > 0
    /\ twin.sampler.lock_on_boost_remaining > sampler.lock_on_boost_remaining
    /\ twin.sampler.lock_on_boost_remaining > 1

\* run_detection has left its frame loop and ended, by return or by raise.
RunEnded == run.pc \in {"returned", "raised"}

\* C33: in run_detection with adaptive sampling enabled the sampler is called
\* exactly once per frame read, the k-th frame read with frame index k-1,
\* whether the frame is then skipped, processed or its detection fails; and
\* frames_read is the sum of the frames skipped, the frames processed and the
\* frames whose detection failed.
C33_OneCallPerFrameRead ==
    /\ [](run.pc # "idle" =>
            /\ run.frames_read
                  = run.frames_skipped + run.processed + hist.detect_failed
            /\ run.enable_adaptive_sampling => hist.calls = run.frames_read)
    /\ [][(run.enable_adaptive_sampling /\ run'.frames_read # run.frames_read) =>
            /\ run'.frames_read = run.frames_read + 1
            /\ CallStep
            /\ hist'.ret.inp.frame_idx = run.frames_read]_vars

\* C33 witness: an adaptive run that has skipped a frame, processed a frame
\* and lost a frame to a failed detection, and has read one more after the
\* failure.
C33_Witness ==
    /\ run.pc = "loop" /\ run.enable_adaptive_sampling
    /\ run.frames_skipped > 0 /\ run.processed > 0 /\ hist.detect_failed > 0
    /\ run.frames_read = MaxVideoFrames
    /\ IsCall /\ hist.ret.inp.frame_idx = MaxVideoFrames - 1

\* C34: for every video that can be opened, run_detection ends by returning a
\* result with meta and tracks and raises no error after the frame loop,
\* whether the loop ended at the end of the video or at max_frames.
C34_ReturnsResult ==
    RunEnded =>
        /\ run.pc = "returned"
        /\ run.error = "none"
        /\ run.result.returned
        /\ run.result.tracks = run.tracks
        /\ run.result.meta.frames = run.frames_read

\* C35: the interval of any decision never exceeds
\* min(max_interval, default_interval + 1): however long the scene stays
\* stable the interval stays at default_interval + 1, and max_interval is
\* reached only when it is at most default_interval + 1.
C35_RelaxationNotCumulative ==
    IsCall =>
        /\ hist.ret.interval <= Min(config.max_interval, config.default_interval + 1)
        /\ hist.ret.interval = config.max_interval
              => config.max_interval <= config.default_interval + 1

\* C35 witness: the scene has been stable for longer than stability_window
\* calls, max_interval lies above default_interval + 1, and the decision is
\* relaxed to default_interval + 1 for the second time running.
C35_Witness ==
    /\ IsCall /\ hist.ret.reason = STABLE_SCENE
    /\ hist.quiet_run > config.stability_window
    /\ config.max_interval > config.default_interval + 1
    /\ hist.ret.interval = config.default_interval + 1
    /\ Len(hist.events) >= 2
    /\ hist.events[Len(hist.events) - 1].reason = STABLE_SCENE

\* C36: for any sequence of calls, including repeated or decreasing frame
\* indices, the frame indices at which frames_processed is incremented are
\* strictly increasing, and in every reachable state frames_processed <=
\* total_frames and processing_ratio <= 100.
C36_ProcessedIndicesIncrease ==
    /\ [][(CallStep /\ sampler'.metrics.frames_processed
                          # sampler.metrics.frames_processed) =>
            /\ sampler'.metrics.frames_processed
                  = sampler.metrics.frames_processed + 1
            /\ hist'.ret.inp.frame_idx > hist.counted_at]_vars
    /\ [](/\ sampler.metrics.frames_processed <= sampler.metrics.total_frames
          /\ processing_ratio(sampler.metrics).num
                <= 100 * processing_ratio(sampler.metrics).den)

\* C36 witness: a session whose frame indices repeated or went back, in which
\* a frame was refused on the way and frames_processed has been incremented
\* for the second time, by a call that is no seek event.
C36_Witness ==
    /\ IsCall /\ ~hist.increasing
    /\ ~hist.ret.inp.seek_event /\ hist.ret.should_process
    /\ sampler.metrics.frames_processed >= 2
    /\ sampler.metrics.frames_skipped >= 1
    /\ hist.counted_at = hist.ret.inp.frame_idx

\* The branches of should_process_frame that do not run the adaptive path.
OverrideBranches == {"seek_event", "seek_window", "lock_on", "cooldown"}

\* C37: a call that takes the seek-event, seek-window, lock-on or cooldown
\* branch leaves motion history, stored previous frame, avg_motion_score,
\* previous detection count, previous identity set and stability counter as
\* they were, whatever frame and detections were passed.
C37_OverrideBranchesKeepAdaptiveState ==
    [][(CallStep /\ hist'.ret.branch \in OverrideBranches) =>
        /\ sampler'.motion_history = sampler.motion_history
        /\ sampler'.prev_frame_gray = sampler.prev_frame_gray
        /\ sampler'.metrics.avg_motion_score = sampler.metrics.avg_motion_score
        /\ sampler'.prev_detection_count = sampler.prev_detection_count
        /\ sampler'.prev_track_ids = sampler.prev_track_ids
        /\ sampler'.stability_counter = sampler.stability_counter]_vars

\* C37 witness: a cooldown call that was passed a moving frame and the
\* identities {1,2}, while the stored previous frame is the still one and the
\* stored identity set is {1,3}.
C37_Witness ==
    /\ IsCall /\ hist.ret.branch = "cooldown"
    /\ hist.ret.inp.frame = MovedFrame
    /\ sampler.prev_frame_gray = Smoothed(StillFrame)
    /\ hist.ret.inp.detections = Ids12
    /\ sampler.prev_track_ids = {1, 3}
    /\ sampler.motion_history # <<>>

\* C38: after every should_process_frame call metrics.current_interval and
\* metrics.last_reason equal the interval and the reason of the newest
\* telemetry event, on every path including the seek-event path, so that the
\* current_interval a payload reads from the metrics is the interval of the
\* decision just returned.
C38_MetricsMatchNewestEvent ==
    IsCall =>
        /\ sampler.metrics.current_interval = LastEvent(sampler).interval
        /\ sampler.metrics.last_reason = LastEvent(sampler).reason
        /\ sampler.metrics.current_interval = hist.ret.interval

\* The stability counter grows only in a normal-path call made with motion
\* detection enabled.
CounterGrowsOnlyWhenScoring ==
    [][sampler'.stability_counter > sampler.stability_counter =>
        /\ CallStep
        /\ hist'.ret.branch = "normal"
        /\ config.enable_motion_detection]_vars

====
